---- MODULE Spec2Model ----
(***************************************************************************)
(* Gap detection and gap aggregation of the survey tracking bot            *)
(* (telegram_bot_queries.py, telegram_bot_formatting.py), modelled as a    *)
(* state machine over the coordinates / global_deployments tables, and     *)
(* the polynomial coordinate transformation (postplot/enserv_transform.py) *)
(* over the coordinate_transforms table.                                   *)
(***************************************************************************)
EXTENDS Integers, Sequences, FiniteSets, TLC

\* ------------------------------------------------------------------ bounds
MaxSP == 5          \* shotpoint identifiers 1..MaxSP in the line scan
MaxDupRows == 1     \* coordinate rows that repeat a (line, shotpoint)
MaxMinGap == 3      \* largest min_gap_size argument tried
MaxLines == 3       \* lines in the aggregation runs
AggMaxSP == 3       \* shotpoints per line in the aggregation runs
MaxRun == 52        \* longest leading run of empty shotpoints in the severity runs

Shotpoints == 1..MaxSP
MinGapSizes == (0 - 1)..MaxMinGap

\* Python's None for gap_start; an open gap is <<shotpoint>>
None == <<>>

VARIABLES
    coordinates,         \* table coordinates: <<line, shotpoint>> -> number of rows
    global_deployments,  \* table global_deployments: set of <<line, shotpoint>>
    pc,                  \* position of the running call
    raised,              \* exception that left the call ("none" when it returned)
    line_number,         \* get_line_gaps argument
    min_gap_size,        \* get_line_gaps argument
    results,             \* rows fetched by the coverage query
    idx,                 \* rows of results consumed by the for loop
    gaps,                \* local gaps
    gap_start,           \* local gap_start
    gap_size,            \* local gap_size
    ret,                 \* value returned by get_line_gaps
    swath_lines,         \* table swath_N: the lines of the swath that is queried
    apc,                 \* position of the running aggregation call
    caller,              \* who called get_all_lines_with_gaps: "cmd" or "stats"
    agg_min,             \* min_gap_size of the aggregation call
    agg_results,         \* rows of the DISTINCT line query
    agg_idx,             \* rows of agg_results consumed
    lines_with_gaps,     \* local lines_with_gaps / swath_gaps being built
    agg_ret,             \* list returned by get_all_lines_with_gaps / get_swath_gaps
    stats,               \* dict built by get_gap_statistics
    sev_idx,             \* entries consumed by the severity loop
    line_report,         \* severity line of format_line_gaps ("" before any report)
    inst,                \* the CoordinateTransform instance: its fields
    store,               \* table coordinate_transforms: set of rows
    op,                  \* the last CoordinateTransform call: kind and arguments
    result,              \* value that call returned (NoResult when it raised)
    saved_fit,           \* per name, the fitted coefficients of the last commit
    readers,             \* the threads calling transform / transform_batch
    writer,              \* the thread calling calculate_coefficients
    db_faulty,           \* whether the database may fail a query of this run
    query_outcome,       \* how the last _execute_query went ("none" before any)
    taken,               \* connections get_connection has handed out
    returned,            \* connections handed back through return_connection
    calls,               \* get_line_gaps calls made by the caller
    history              \* arguments, rows and result of the finished calls

dbVars == <<coordinates, global_deployments, swath_lines>>

scanVars == <<pc, raised, line_number, min_gap_size, results, idx, gaps,
              gap_start, gap_size, ret>>

aggVars == <<apc, caller, agg_min, agg_results, agg_idx, lines_with_gaps,
             agg_ret, stats, sev_idx, line_report>>

tVars == <<inst, store, op, result, saved_fit>>

\* the connection pool and the caller's record of its queries
poolVars == <<db_faulty, query_outcome, taken, returned, calls, history>>

thVars == <<readers, writer>>

\* the variables of the gap queries, but for raised
queryVars == <<dbVars, aggVars, poolVars, pc, line_number, min_gap_size, results,
               idx, gaps, gap_start, gap_size, ret>>

\* everything a CoordinateTransform call leaves alone
gapVars == <<queryVars, thVars>>

vars == <<dbVars, scanVars, aggVars, tVars, poolVars, thVars>>

\* ------------------------------------------------------------ the database

\* shotpoints of a line that have at least one coordinates row
LineShotpoints(coords, line) ==
    {k[2] : k \in {d \in DOMAIN coords : d[1] = line /\ coords[d] > 0}}

SetMin(S) == CHOOSE m \in S : \A o \in S : m <= o

SetMax(S) == CHOOSE m \in S : \A o \in S : m >= o

Repeat(x, n) == [i \in 1..n |-> x]

\* number of coordinates rows of (line, sp)
RowCount(coords, line, sp) ==
    IF <<line, sp>> \in DOMAIN coords THEN coords[<<line, sp>>] ELSE 0

\* the joined rows of the shotpoints lo..hi of a line, ascending
RECURSIVE CoverageRows(_, _, _, _, _)
CoverageRows(coords, deps, line, lo, hi) ==
    IF lo > hi THEN <<>>
    ELSE IF lo = hi
         THEN LET has_deployment == IF <<line, lo>> \in deps THEN 1 ELSE 0
              IN  Repeat(<<lo, has_deployment>>, RowCount(coords, line, lo))
         ELSE LET mid == (lo + hi) \div 2
              IN  CoverageRows(coords, deps, line, lo, mid)
                    \o CoverageRows(coords, deps, line, mid + 1, hi)

\* SELECT c.shotpoint, CASE WHEN d.shotpoint IS NULL THEN 0 ELSE 1 END
\* FROM coordinates c LEFT JOIN global_deployments d
\*   ON c.line = d.line AND c.shotpoint = d.shotpoint
\* WHERE c.line = %s ORDER BY c.shotpoint
CoverageQuery(coords, deps, line) ==
    LET sps == LineShotpoints(coords, line)
    IN  IF sps = {} THEN <<>>
        ELSE CoverageRows(coords, deps, line, SetMin(sps), SetMax(sps))

\* ------------------------------------------------------- _execute_query

\* how a query can go: it returns its rows, get_connection raises (or gives
\* no connection), or the cursor raises with the connection in hand
Outcomes(faulty) ==
    IF faulty THEN {"ok", "no_connection", "query_error"} ELSE {"ok"}

\* an except branch that logs the error and raises it again
ExceptBranch_Reraises(outcome) ==
    IF outcome = "ok" THEN "none" ELSE "QueryError"

\* the except branch of _execute_query: `except Exception` catches what
\* get_connection, cursor, execute or fetchall raise, and returns []
ExceptBranch(outcome) == "none"

\* _execute_query that hands the connection back only after a clean fetch
ExecuteQuery_NoFinally(outcome, rows) ==
    [rows |-> IF outcome = "ok" THEN rows ELSE <<>>,
     taken |-> IF outcome = "no_connection" THEN 0 ELSE 1,
     returned |-> IF outcome = "ok" THEN 1 ELSE 0,
     raised |-> ExceptBranch(outcome)]

\* _execute_query: the rows it returns ([] from the except branch) and the
\* connections it takes and hands back (the finally branch, `if conn`)
ExecuteQuery(outcome, rows) ==
    [rows |-> IF outcome = "ok" THEN rows ELSE <<>>,
     taken |-> IF outcome = "no_connection" THEN 0 ELSE 1,
     returned |-> IF outcome = "no_connection" THEN 0 ELSE 1,
     raised |-> ExceptBranch(outcome)]

\* ------------------------------------------------- get_line_gaps, the scan

Gap(line, start, end, size) ==
    [line |-> line, start_shotpoint |-> start, end_shotpoint |-> end, size |-> size]

ScanState(g, s, n) == [gaps |-> g, gap_start |-> s, gap_size |-> n]

\* variants of the loop body, each with one slip, used to test the claims
LoopBody_StrictThreshold(st, line, row, min) ==
    IF row[2] = 0
    THEN ScanState(st.gaps,
                   IF st.gap_start = None THEN <<row[1]>> ELSE st.gap_start,
                   st.gap_size + 1)
    ELSE ScanState(IF st.gap_start # None /\ st.gap_size > min
                   THEN Append(st.gaps, Gap(line, st.gap_start[1], row[1] - 1, st.gap_size))
                   ELSE st.gaps,
                   None, 0)

LoopBody_IncrementOnOpen(st, line, row, min) ==
    IF row[2] = 0
    THEN ScanState(st.gaps,
                   IF st.gap_start = None THEN <<row[1]>> ELSE st.gap_start,
                   IF st.gap_start = None THEN st.gap_size + 1 ELSE st.gap_size)
    ELSE ScanState(IF st.gap_start # None /\ st.gap_size >= min
                   THEN Append(st.gaps, Gap(line, st.gap_start[1], row[1] - 1, st.gap_size))
                   ELSE st.gaps,
                   None, 0)

LoopBody_ResetOnEmit(st, line, row, min) ==
    IF row[2] = 0
    THEN ScanState(st.gaps,
                   IF st.gap_start = None THEN <<row[1]>> ELSE st.gap_start,
                   st.gap_size + 1)
    ELSE IF st.gap_start # None /\ st.gap_size >= min
         THEN ScanState(Append(st.gaps,
                               Gap(line, st.gap_start[1], row[1] - 1, st.gap_size)),
                        None, 0)
         ELSE st

LoopBody_Prepend(st, line, row, min) ==
    IF row[2] = 0
    THEN ScanState(st.gaps,
                   IF st.gap_start = None THEN <<row[1]>> ELSE st.gap_start,
                   st.gap_size + 1)
    ELSE ScanState(IF st.gap_start # None /\ st.gap_size >= min
                   THEN <<Gap(line, st.gap_start[1], row[1] - 1, st.gap_size)>> \o st.gaps
                   ELSE st.gaps,
                   None, 0)

LoopBody_SpanSize(st, line, row, min) ==
    IF row[2] = 0
    THEN ScanState(st.gaps,
                   IF st.gap_start = None THEN <<row[1]>> ELSE st.gap_start,
                   st.gap_size + 1)
    ELSE ScanState(IF st.gap_start # None /\ st.gap_size >= min
                   THEN Append(st.gaps, Gap(line, st.gap_start[1], row[1] - 1,
                                            row[1] - st.gap_start[1]))
                   ELSE st.gaps,
                   None, 0)

\* one iteration of `for shotpoint, has_deployment in results`
LoopBody(st, line, row, min) ==
    LET shotpoint == row[1]
        has_deployment == row[2]
    IN  IF has_deployment = 0
        THEN ScanState(st.gaps,
                       IF st.gap_start = None THEN <<shotpoint>> ELSE st.gap_start,
                       st.gap_size + 1)
        ELSE ScanState(IF st.gap_start # None /\ st.gap_size >= min
                       THEN Append(st.gaps,
                                   Gap(line, st.gap_start[1], shotpoint - 1, st.gap_size))
                       ELSE st.gaps,
                       None, 0)

\* variant of the end-of-line check that forgets the open gap
EndOfLine_NoTrailing(st, line, rows, min) == st.gaps

\* variant of the end-of-line check that emits the open gap whatever its size
EndOfLine_AnySize(st, line, rows, min) ==
    IF st.gap_start # None
    THEN Append(st.gaps, Gap(line, st.gap_start[1], rows[Len(rows)][1], st.gap_size))
    ELSE st.gaps

\* the check for a gap at the end of the line, and the returned list
EndOfLine(st, line, rows, min) ==
    IF st.gap_start # None /\ st.gap_size >= min
    THEN LET last_shotpoint == rows[Len(rows)][1]
         IN  Append(st.gaps, Gap(line, st.gap_start[1], last_shotpoint, st.gap_size))
    ELSE st.gaps

\* ---------------------------------------------------------------- actions

\* get_line_gaps that starts from whatever the last call left in its locals
CallGetLineGaps_KeepsLocals ==
    /\ pc = "idle"
    /\ \E line \in {k[1] : k \in DOMAIN coordinates}, min \in MinGapSizes,
          outcome \in Outcomes(db_faulty) :
         LET q == ExecuteQuery(outcome,
                               CoverageQuery(coordinates, global_deployments, line))
             rows == q.rows
         IN  /\ line_number' = line
             /\ min_gap_size' = min
             /\ results' = rows
             /\ query_outcome' = outcome
             /\ taken' = taken + q.taken
             /\ returned' = returned + q.returned
             /\ raised' = q.raised
             /\ IF rows = <<>>
                THEN /\ pc' = "done"
                     /\ ret' = <<>>
                ELSE /\ pc' = "loop"
                     /\ ret' = ret
    /\ idx' = 0
    /\ gaps' = <<>>
    /\ UNCHANGED <<dbVars, tVars, thVars, aggVars, db_faulty, calls, history,
                   gap_start, gap_size>>

\* get_line_gaps up to the loop: the query and the `if not results` return
CallGetLineGaps ==
    /\ pc = "idle"
    /\ \E line \in {k[1] : k \in DOMAIN coordinates}, min \in MinGapSizes,
          outcome \in Outcomes(db_faulty) :
         LET q == ExecuteQuery(outcome,
                               CoverageQuery(coordinates, global_deployments, line))
             rows == q.rows
         IN  /\ line_number' = line
             /\ min_gap_size' = min
             /\ results' = rows
             /\ query_outcome' = outcome
             /\ taken' = taken + q.taken
             /\ returned' = returned + q.returned
             /\ raised' = q.raised
             /\ IF rows = <<>>
                THEN /\ pc' = "done"
                     /\ ret' = <<>>
                ELSE /\ pc' = "loop"
                     /\ ret' = ret
    /\ idx' = 0
    /\ gaps' = <<>>
    /\ gap_start' = None
    /\ gap_size' = 0
    /\ UNCHANGED <<dbVars, tVars, thVars, aggVars, db_faulty, calls, history>>

LoopStep(flag) ==
    /\ pc = "loop"
    /\ idx < Len(results)
    /\ results[idx + 1][2] = flag
    /\ LET st == LoopBody(ScanState(gaps, gap_start, gap_size),
                          line_number, results[idx + 1], min_gap_size)
       IN  /\ gaps' = st.gaps
           /\ gap_start' = st.gap_start
           /\ gap_size' = st.gap_size
    /\ idx' = idx + 1
    /\ UNCHANGED <<dbVars, tVars, thVars, poolVars, aggVars, pc, raised, line_number,
                   min_gap_size, results, ret>>

\* loop iteration on a record with has_deployment = 0
LoopEmpty == LoopStep(0)

\* loop iteration on a record with has_deployment = 1
LoopFilled == LoopStep(1)

\* after the loop: gap at end of line, return gaps
ReturnGaps ==
    /\ pc = "loop"
    /\ idx = Len(results)
    /\ ret' = EndOfLine(ScanState(gaps, gap_start, gap_size),
                        line_number, results, min_gap_size)
    /\ pc' = "done"
    /\ UNCHANGED <<dbVars, tVars, thVars, poolVars, aggVars, raised, line_number,
                   min_gap_size, results, idx, gaps, gap_start, gap_size>>

\* most calls (get_line_gaps calls, /gaps commands) one caller makes in a run
MaxCalls == 2

\* lines of the survey when queries may fail
MaxPoolLines == 2

\* the caller takes the returned list and is ready for its next query
Again ==
    /\ pc = "done"
    /\ calls + 1 < MaxCalls
    /\ calls' = calls + 1
    /\ history' = history \cup {[line |-> line_number, min |-> min_gap_size,
                                  rows |-> results, ret |-> ret]}
    /\ pc' = "idle"
    /\ UNCHANGED <<dbVars, tVars, thVars, aggVars, raised, line_number, min_gap_size,
                   results, idx, gaps, gap_start, gap_size, ret,
                   db_faulty, query_outcome, taken, returned>>

\* the stats dict before any line is counted
EmptyStats ==
    [total_lines_with_gaps |-> 0, total_gaps |-> 0, total_gap_points |-> 0,
     lines_by_severity |-> [critical |-> <<>>, high |-> <<>>,
                            medium |-> <<>>, low |-> <<>>]]

\* ------------------------------------------------ get_line_gaps as a whole

\* the scan state st after the rows lo..hi as well (the test on st makes
\* TLC compute st before it descends, which keeps the evaluation shallow)
RECURSIVE ScanRows(_, _, _, _, _, _)
ScanRows(st, rows, lo, hi, line, min) ==
    IF st.gap_size < 0 \/ lo > hi THEN st
    ELSE IF lo = hi THEN LoopBody(st, line, rows[lo], min)
    ELSE LET mid == (lo + hi) \div 2
         IN  ScanRows(ScanRows(st, rows, lo, mid, line, min),
                      rows, mid + 1, hi, line, min)

\* get_line_gaps(line, min) on the tables coords, deps
GetLineGaps(coords, deps, line, min) ==
    LET rows == CoverageQuery(coords, deps, line)
    IN  IF rows = <<>> THEN <<>>
        ELSE EndOfLine(ScanRows(ScanState(<<>>, None, 0), rows, 1, Len(rows), line, min),
                       line, rows, min)

\* ------------------------------------------------------------- aggregation

RECURSIVE SortedSeq(_)
SortedSeq(S) ==
    IF S = {} THEN <<>> ELSE <<SetMin(S)>> \o SortedSeq(S \ {SetMin(S)})

\* SELECT DISTINCT line FROM coordinates ORDER BY line
DistinctLines(coords) ==
    SortedSeq({k[1] : k \in {d \in DOMAIN coords : coords[d] > 0}})

\* SELECT DISTINCT line FROM swath_N ORDER BY line
SwathLinesQuery(sw) == SortedSeq(sw)

\* sum(gap['size'] for gap in gaps)
RECURSIVE SumSizes(_)
SumSizes(gs) ==
    IF gs = <<>> THEN 0 ELSE gs[1].size + SumSizes(Tail(gs))

\* variant that stores the number of gaps as the total
AggregateLine_CountAsTotal(acc, coords, deps, line, min) ==
    LET gs == GetLineGaps(coords, deps, line, min)
    IN  IF gs # <<>>
        THEN Append(acc, [line |-> line, gap_count |-> Len(gs),
                          total_gap_points |-> Len(gs), gaps |-> gs])
        ELSE acc

\* body of `for (line_number,) in results` of both aggregations
AggregateLine(acc, coords, deps, line, min) ==
    LET gs == GetLineGaps(coords, deps, line, min)
    IN  IF gs # <<>>
        THEN Append(acc, [line |-> line, gap_count |-> Len(gs),
                          total_gap_points |-> SumSizes(gs), gaps |-> gs])
        ELSE acc

\* place of e in a list already sorted: behind every entry with at least
\* its total (list.sort is stable, also with reverse=True)
InsertDescending(sorted, e) ==
    LET k == Cardinality({i \in 1..Len(sorted) :
                             sorted[i].total_gap_points >= e.total_gap_points})
    IN  SubSeq(sorted, 1, k) \o <<e>> \o SubSeq(sorted, k + 1, Len(sorted))

\* variant that leaves the list in query order
SortByTotalDescending_NoSort(seq) == seq

\* lines_with_gaps.sort(key=lambda x: x['total_gap_points'], reverse=True)
RECURSIVE SortByTotalDescending(_)
SortByTotalDescending(seq) ==
    IF seq = <<>> THEN <<>>
    ELSE InsertDescending(SortByTotalDescending(SubSeq(seq, 1, Len(seq) - 1)),
                          seq[Len(seq)])

\* get_gap_statistics asks for gaps of at least 5 points
StatsMinGapSize == 5

\* variant with inclusive tier boundaries
StatsSeverity_Inclusive(total_gaps) ==
    IF total_gaps >= 50 THEN "critical"
    ELSE IF total_gaps >= 20 THEN "high"
    ELSE IF total_gaps >= 10 THEN "medium"
    ELSE "low"

\* variant with a fifth tier that leaves totals up to 5 out
StatsSeverity_ExcludeFive(total_gaps) ==
    IF total_gaps > 50 THEN "critical"
    ELSE IF total_gaps > 20 THEN "high"
    ELSE IF total_gaps > 10 THEN "medium"
    ELSE IF total_gaps > 5 THEN "low"
    ELSE "none"

\* the if / elif chain of get_gap_statistics
StatsSeverity(total_gaps) ==
    IF total_gaps > 50 THEN "critical"
    ELSE IF total_gaps > 20 THEN "high"
    ELSE IF total_gaps > 10 THEN "medium"
    ELSE "low"

\* the chain written with `if` in place of `elif`: a total that passes the
\* test of a tier is appended to the lower tiers whose test it passes too
AppendToBucket_NoElif(buckets, sev, line) ==
    LET rank == [critical |-> 3, high |-> 2, medium |-> 1, low |-> 0]
    IN  [b \in DOMAIN buckets |->
            IF b = sev \/ (b # "low" /\ rank[b] < rank[sev])
            THEN Append(buckets[b], line) ELSE buckets[b]]

\* stats['lines_by_severity'][sev].append(line)
AppendToBucket(buckets, sev, line) ==
    [b \in DOMAIN buckets |-> IF b = sev THEN Append(buckets[b], line) ELSE buckets[b]]

RECURSIVE SumField(_, _)
SumField(seq, f) ==
    IF seq = <<>> THEN 0 ELSE seq[1][f] + SumField(Tail(seq), f)

\* the severity assessment of format_line_gaps
FormatSeverity(total_gap_points) ==
    IF total_gap_points > 50 THEN "CRITICAL"
    ELSE IF total_gap_points > 20 THEN "HIGH"
    ELSE IF total_gap_points > 10 THEN "MEDIUM"
    ELSE "LOW"

\* format_line_gaps, reduced to the severity it prints
FormatLineGaps(gs) ==
    IF gs = <<>> THEN "No gaps detected" ELSE FormatSeverity(SumSizes(gs))

\* the line query of get_all_lines_with_gaps, for a command or for statistics
StartAllLines(who, min) ==
    /\ apc = "idle"
    /\ caller' = who
    /\ agg_min' = min
    /\ \E outcome \in Outcomes(db_faulty) :
         LET q == ExecuteQuery(outcome, DistinctLines(coordinates))
         IN  /\ agg_results' = q.rows
             /\ query_outcome' = outcome
             /\ taken' = taken + q.taken
             /\ returned' = returned + q.returned
    /\ agg_idx' = 0
    /\ lines_with_gaps' = <<>>
    /\ apc' = "all_loop"
    /\ UNCHANGED <<dbVars, tVars, thVars, scanVars, agg_ret, stats, sev_idx, line_report,
                   db_faulty, calls, history>>

\* /gaps all [min]: get_all_lines_with_gaps(min_gap_size)
CallGetAllLinesWithGaps == \E min \in 1..MaxMinGap : StartAllLines("cmd", min)

\* /gaps: get_gap_statistics calls get_all_lines_with_gaps(min_gap_size=5)
CallGetGapStatistics == StartAllLines("stats", StatsMinGapSize)

LoopOverLines(at) ==
    /\ apc = at
    /\ agg_idx < Len(agg_results)
    /\ \E outcome \in Outcomes(db_faulty) :
         LET q == ExecuteQuery(outcome,
                               CoverageQuery(coordinates, global_deployments,
                                             agg_results[agg_idx + 1]))
         IN  /\ lines_with_gaps' =
                    IF outcome = "ok"
                    THEN AggregateLine(lines_with_gaps, coordinates,
                                       global_deployments,
                                       agg_results[agg_idx + 1], agg_min)
                    ELSE lines_with_gaps
             /\ query_outcome' = outcome
             /\ taken' = taken + q.taken
             /\ returned' = returned + q.returned
    /\ agg_idx' = agg_idx + 1
    /\ UNCHANGED <<dbVars, tVars, thVars, scanVars, apc, caller, agg_min, agg_results,
                   agg_ret, stats, sev_idx, line_report, db_faulty, calls, history>>

\* one line of the loop of get_all_lines_with_gaps
AllLinesIter == LoopOverLines("all_loop")

\* get_all_lines_with_gaps: sort and return to the command
AllLinesReturn ==
    /\ apc = "all_loop"
    /\ agg_idx = Len(agg_results)
    /\ caller = "cmd"
    /\ agg_ret' = SortByTotalDescending(lines_with_gaps)
    /\ apc' = "all_done"
    /\ UNCHANGED <<dbVars, tVars, thVars, poolVars, scanVars, caller, agg_min, agg_results, agg_idx,
                   lines_with_gaps, stats, sev_idx, line_report>>

\* get_all_lines_with_gaps sorts and returns to get_gap_statistics, which
\* builds the stats dict with its totals and empty buckets
StatsBuild ==
    /\ apc = "all_loop"
    /\ agg_idx = Len(agg_results)
    /\ caller = "stats"
    /\ LET sorted == SortByTotalDescending(lines_with_gaps)
       IN  /\ lines_with_gaps' = sorted
           /\ stats' = [total_lines_with_gaps |-> Len(sorted),
                        total_gaps |-> SumField(sorted, "gap_count"),
                        total_gap_points |-> SumField(sorted, "total_gap_points"),
                        lines_by_severity |-> EmptyStats.lines_by_severity]
    /\ sev_idx' = 0
    /\ apc' = "severity_loop"
    /\ UNCHANGED <<dbVars, tVars, thVars, poolVars, scanVars, caller, agg_min, agg_results, agg_idx,
                   agg_ret, line_report>>

\* one line of `for line_data in lines_with_gaps` of get_gap_statistics
CategorizeLine ==
    /\ apc = "severity_loop"
    /\ sev_idx < Len(lines_with_gaps)
    /\ LET line_data == lines_with_gaps[sev_idx + 1]
           total_gaps == line_data.total_gap_points
           line == line_data.line
       IN  stats' = [stats EXCEPT !.lines_by_severity =
                        AppendToBucket(@, StatsSeverity(total_gaps), line)]
    /\ sev_idx' = sev_idx + 1
    /\ UNCHANGED <<dbVars, tVars, thVars, poolVars, scanVars, apc, caller, agg_min, agg_results,
                   agg_idx, lines_with_gaps, agg_ret, line_report>>

\* get_gap_statistics returns stats
ReturnStats ==
    /\ apc = "severity_loop"
    /\ sev_idx = Len(lines_with_gaps)
    /\ apc' = "stats_done"
    /\ UNCHANGED <<dbVars, tVars, thVars, poolVars, scanVars, caller, agg_min, agg_results, agg_idx,
                   lines_with_gaps, agg_ret, stats, sev_idx, line_report>>

\* /gaps swath N [min]: the line query of get_swath_gaps
CallGetSwathGaps ==
    /\ apc = "idle"
    /\ \E min \in 1..MaxMinGap : agg_min' = min
    /\ caller' = "cmd"
    /\ \E outcome \in Outcomes(db_faulty) :
         LET q == ExecuteQuery(outcome, SwathLinesQuery(swath_lines))
         IN  /\ agg_results' = q.rows
             /\ query_outcome' = outcome
             /\ taken' = taken + q.taken
             /\ returned' = returned + q.returned
    /\ agg_idx' = 0
    /\ lines_with_gaps' = <<>>
    /\ apc' = "swath_loop"
    /\ UNCHANGED <<dbVars, tVars, thVars, scanVars, agg_ret, stats, sev_idx, line_report,
                   db_faulty, calls, history>>

\* one line of the loop of get_swath_gaps
SwathIter == LoopOverLines("swath_loop")

\* get_swath_gaps returns swath_gaps as built
SwathReturn ==
    /\ apc = "swath_loop"
    /\ agg_idx = Len(agg_results)
    /\ agg_ret' = lines_with_gaps
    /\ apc' = "swath_done"
    /\ UNCHANGED <<dbVars, tVars, thVars, poolVars, scanVars, caller, agg_min, agg_results, agg_idx,
                   lines_with_gaps, stats, sev_idx, line_report>>

\* /gaps line N [min]: get_line_gaps, then format_line_gaps
CmdGapsLine ==
    /\ apc = "idle"
    /\ \E line \in {k[1] : k \in DOMAIN coordinates}, min \in 1..MaxMinGap,
          outcome \in Outcomes(db_faulty) :
         LET q == ExecuteQuery(outcome,
                               CoverageQuery(coordinates, global_deployments, line))
             gs == IF outcome = "ok"
                   THEN GetLineGaps(coordinates, global_deployments, line, min)
                   ELSE <<>>
         IN  /\ line_number' = line
             /\ min_gap_size' = min
             /\ ret' = gs
             /\ line_report' = FormatLineGaps(gs)
             /\ query_outcome' = outcome
             /\ taken' = taken + q.taken
             /\ returned' = returned + q.returned
    /\ apc' = "line_done"
    /\ UNCHANGED <<dbVars, tVars, thVars, pc, raised, results, idx, gaps, gap_start, gap_size,
                   caller, agg_min, agg_results, agg_idx, lines_with_gaps,
                   agg_ret, stats, sev_idx, db_faulty, calls, history>>

\* the command has been answered and its locals are gone; the bot takes the
\* next command on the same DatabaseQueries object and connection pool
NextCommand ==
    /\ apc \in {"all_done", "stats_done", "swath_done", "line_done"}
    /\ calls + 1 < MaxCalls
    /\ calls' = calls + 1
    /\ apc' = "idle"
    /\ caller' = "cmd"
    /\ agg_min' = 0
    /\ agg_results' = <<>>
    /\ agg_idx' = 0
    /\ lines_with_gaps' = <<>>
    /\ agg_ret' = <<>>
    /\ stats' = EmptyStats
    /\ sev_idx' = 0
    /\ line_report' = ""
    /\ line_number' = 0
    /\ min_gap_size' = 0
    /\ ret' = <<>>
    /\ UNCHANGED <<dbVars, tVars, thVars, pc, raised, results, idx, gaps, gap_start,
                   gap_size, db_faulty, query_outcome, taken, returned, history>>

\* ------------------------------------------------------------------------
\* CoordinateTransform (postplot/enserv_transform.py)
\* ------------------------------------------------------------------------

\* Numbers are integers: coordinates and coefficients are whole, a root mean
\* square is rounded up to the next whole number (it is 0 only for no error).

MaxPoints == 10     \* most control points in a fit
MaxBatch == 2       \* most rows in a transform_batch argument

\* name=None of the constructor and of load_from_database
NoName == "<None>"

Names == {"t1", "t2"}

\* a call that raised returns nothing
NoResult == [kind |-> "nothing"]

\* a numpy array built from a Python list, and ndarray.tolist()
NpArray(list) == [i \in 0..(Len(list) - 1) |-> list[i + 1]]

ToList(arr) == [i \in 1..Cardinality(DOMAIN arr) |-> arr[i - 1]]

\* an array holds its elements: computed once, when the array is made, not
\* again at every access
Stored(f) == IF f = f THEN f ELSE f

\* a float that may be None: <<v>> or None
Float(v) == <<v>>

\* sum of f[0] .. f[n - 1]
RECURSIVE SumTo(_, _)
SumTo(f, n) == IF n = 0 THEN 0 ELSE f[n - 1] + SumTo(f, n - 1)

\* np.dot(coeffs, terms) and one row of A @ coeffs
Dot(a, b) == SumTo([i \in DOMAIN a |-> a[i] * b[i]], Cardinality(DOMAIN a))

\* the terms array of transform
Terms(x, y) ==
    NpArray(<<1, x, y, x * x, x * y, y * y, x * x * x, x * x * y, x * y * y,
              y * y * y>>)

\* create_polynomial_matrix with the Y**2 and X*Y columns exchanged
create_polynomial_matrix_SwappedColumns(XY) ==
    LET n == Len(XY)
        X == [k \in 0..(n - 1) |-> XY[k + 1][1]]
        Y == [k \in 0..(n - 1) |-> XY[k + 1][2]]
        columns ==
            << [k \in 0..(n - 1) |-> 1], X, Y,
               [k \in 0..(n - 1) |-> X[k] * X[k]],
               [k \in 0..(n - 1) |-> Y[k] * Y[k]],
               [k \in 0..(n - 1) |-> X[k] * Y[k]],
               [k \in 0..(n - 1) |-> X[k] * X[k] * X[k]],
               [k \in 0..(n - 1) |-> X[k] * X[k] * Y[k]],
               [k \in 0..(n - 1) |-> X[k] * Y[k] * Y[k]],
               [k \in 0..(n - 1) |-> Y[k] * Y[k] * Y[k]] >>
    IN  Stored([k \in 0..(n - 1) |-> [j \in 0..9 |-> columns[j + 1][k]]])

\* create_polynomial_matrix: the columns X, Y are sliced out of XY and the
\* ten columns are stacked; row k is A[k]
create_polynomial_matrix(XY) ==
    LET n == Len(XY)
        X == [k \in 0..(n - 1) |-> XY[k + 1][1]]
        Y == [k \in 0..(n - 1) |-> XY[k + 1][2]]
        columns ==
            << [k \in 0..(n - 1) |-> 1], X, Y,
               [k \in 0..(n - 1) |-> X[k] * X[k]],
               [k \in 0..(n - 1) |-> X[k] * Y[k]],
               [k \in 0..(n - 1) |-> Y[k] * Y[k]],
               [k \in 0..(n - 1) |-> X[k] * X[k] * X[k]],
               [k \in 0..(n - 1) |-> X[k] * X[k] * Y[k]],
               [k \in 0..(n - 1) |-> X[k] * Y[k] * Y[k]],
               [k \in 0..(n - 1) |-> Y[k] * Y[k] * Y[k]] >>
    IN  Stored([k \in 0..(n - 1) |-> [j \in 0..9 |-> columns[j + 1][k]]])

\* A @ coeffs
MatVec(A, coeffs) == Stored([k \in DOMAIN A |-> Dot(A[k], coeffs)])

\* sum of squared residuals of A @ c against b
SquaredError(A, b, c) ==
    LET p == MatVec(A, c)
    IN  SumTo([k \in DOMAIN A |-> (p[k] - b[k]) * (p[k] - b[k])],
              Cardinality(DOMAIN A))

\* the coefficient vectors the solver can return: whole constant and linear
\* parts, no higher-order part
CoefficientGrid ==
    {[i \in 0..9 |-> IF i = 0 THEN a ELSE IF i = 1 THEN b
                     ELSE IF i = 2 THEN c ELSE 0] :
        a \in (0 - 1)..1, b \in (0 - 1)..1, c \in (0 - 1)..1}

\* np.linalg.lstsq(A, b, rcond=None): a least-squares solution, and among
\* those one of least norm; it returns for a rank-deficient A as well
Lstsq(A, b) ==
    LET Key(c) == SquaredError(A, b, c) * 1000
                    + SumTo([i \in 0..9 |-> c[i] * c[i]], 10) * 100
                    + (c[0] + 1) * 9 + (c[1] + 1) * 3 + (c[2] + 1)
        least == SetMin({Key(c) : c \in CoefficientGrid})
    IN  CHOOSE c \in CoefficientGrid : Key(c) = least

\* the least r in lo..hi with r * r >= n, by bisection
RECURSIVE RootBetween(_, _, _)
RootBetween(n, lo, hi) ==
    IF lo >= hi THEN lo
    ELSE LET mid == (lo + hi) \div 2
         IN  IF mid * mid >= n THEN RootBetween(n, lo, mid)
             ELSE RootBetween(n, mid + 1, hi)

\* the square root, rounded up (arguments stay below 2^30)
CeilSqrt(n) == RootBetween(n, 0, 32768)

\* float(np.sqrt(np.mean((predicted - actual)**2)))
Rmse(predicted, actual) ==
    LET n == Cardinality(DOMAIN predicted)
        sq == SumTo([k \in DOMAIN predicted |->
                        (predicted[k] - actual[k]) * (predicted[k] - actual[k])], n)
    IN  CeilSqrt((sq + n - 1) \div n)

\* the control-point lists tried, n points each:
\*   "spread"  distinct (x, y) on a grid, lat = y and lon = x exactly
\*   "same"    every point at (x, y) = (1, 1), every other lat off by one
PointKinds == {"spread", "same"}

ControlPoints(kind, n) ==
    [k \in 1..n |->
        IF kind = "same"
        THEN [x |-> 1, y |-> 1, lat |-> k % 2, lon |-> 1]
        ELSE [x |-> (k - 1) % 3, y |-> (k - 1) \div 3,
              lat |-> (k - 1) \div 3, lon |-> (k - 1) % 3]]

\* no point, nine spread points, and MaxPoints points of each kind
ControlPointLists ==
    {<<>>, ControlPoints("spread", 9)}
        \cup {ControlPoints(kind, MaxPoints) : kind \in PointKinds}

SameXY(points) == \A i, j \in 1..Len(points) :
                     points[i].x = points[j].x /\ points[i].y = points[j].y

\* [[pt['x'], pt['y']] for pt in control_points] and the lat / lon columns
XYOf(points) == [k \in 1..Len(points) |-> <<points[k].x, points[k].y>>]

LatOf(points) == [k \in 0..(Len(points) - 1) |-> points[k + 1].lat]

LonOf(points) == [k \in 0..(Len(points) - 1) |-> points[k + 1].lon]

\* the fields __init__ sets
CoordinateTransform(name, db_conn) ==
    [name |-> name, db_conn |-> db_conn,
     coeffs_lon |-> None, coeffs_lat |-> None,
     rmse_lon |-> None, rmse_lat |-> None, rmse_meters |-> None,
     control_point_count |-> 0]

\* the check that opens transform and transform_batch
NotFitted(t) == t.coeffs_lon = None \/ t.coeffs_lat = None

\* the fit of a non-empty control-point list: coefficients and rmse values
calculate_transformation(points) ==
    LET A == create_polynomial_matrix(XYOf(points))
        coeffs_lon == Lstsq(A, LonOf(points))
        coeffs_lat == Lstsq(A, LatOf(points))
        rmse_lon == Rmse(MatVec(A, coeffs_lon), LonOf(points))
        rmse_lat == Rmse(MatVec(A, coeffs_lat), LatOf(points))
    IN  [coeffs_lon |-> coeffs_lon, coeffs_lat |-> coeffs_lat,
         rmse_lon |-> rmse_lon, rmse_lat |-> rmse_lat,
         rmse_meters |-> rmse_lat * 111000]

\* the fits of the control-point lists tried
Fits == [points \in ControlPointLists \ {<<>>} |-> calculate_transformation(points)]

\* calculate_coefficients: an empty list fails in create_polynomial_matrix
\* (XY has one dimension); any other list is fitted and the fields are set
\* (fits[points] is the fit of the list)
CalculateCoefficientsOn(points, fits) ==
    /\ op' = [kind |-> "calculate_coefficients", arg |-> points]
    /\ IF Len(points) = 0
       THEN /\ raised' = "IndexError"
            /\ result' = NoResult
            /\ inst' = inst
       ELSE LET f == fits[points]
            IN  /\ inst' = [inst EXCEPT !.coeffs_lon = f.coeffs_lon,
                                        !.coeffs_lat = f.coeffs_lat,
                                        !.rmse_lon = Float(f.rmse_lon),
                                        !.rmse_lat = Float(f.rmse_lat),
                                        !.rmse_meters = Float(f.rmse_meters),
                                        !.control_point_count = Len(points)]
                /\ result' = [kind |-> "rmse",
                              value |-> <<f.rmse_lat, f.rmse_lon, f.rmse_meters>>]
                /\ raised' = "none"
    /\ UNCHANGED <<gapVars, store, saved_fit>>

CalculateCoefficients ==
    \E points \in ControlPointLists : CalculateCoefficientsOn(points, Fits)

\* transform with x and y taken in the other order
transform_SwappedArguments(t, x, y) ==
    LET terms == Terms(y, x)
        lon == Dot(terms, t.coeffs_lon)
        lat == Dot(terms, t.coeffs_lat)
    IN  <<lat, lon>>

\* the value of transform(x, y): (lat, lon)
transform(t, x, y) ==
    LET terms == Terms(x, y)
        lon == Dot(terms, t.coeffs_lon)
        lat == Dot(terms, t.coeffs_lat)
    IN  <<lat, lon>>

\* the value of transform_batch(XY): an N x 2 array [lat, lon]
transform_batch(t, XY) ==
    LET A == create_polynomial_matrix(XY)
        lons == MatVec(A, t.coeffs_lon)
        lats == MatVec(A, t.coeffs_lat)
    IN  Stored([k \in DOMAIN A |-> NpArray(<<lats[k], lons[k]>>)])

\* the (x, y) pairs transformed
TestPoints == {<<1, 2>>, <<2, 1>>}

\* the XY lists transformed: (1, 2), (2, 1), (3, 2), (4, 1) ... cut at 0..MaxBatch rows
Batches == {[k \in 1..n |-> <<k, 1 + (k % 2)>>] : n \in 0..MaxBatch}

\* transform without the check of the coefficients: it answers the origin
Transform_NoCheck ==
    \E p \in TestPoints :
        /\ op' = [kind |-> "transform", arg |-> p]
        /\ IF NotFitted(inst)
           THEN /\ raised' = "none"
                /\ result' = [kind |-> "point", value |-> <<0, 0>>]
           ELSE /\ raised' = "none"
                /\ result' = [kind |-> "point", value |-> transform(inst, p[1], p[2])]
        /\ UNCHANGED <<gapVars, inst, store, saved_fit>>

\* transform(x, y) with (x, y) = p: the check, then the value
TransformAt(p) ==
    /\ op' = [kind |-> "transform", arg |-> p]
    /\ IF NotFitted(inst)
       THEN /\ raised' = "NotFitted"
            /\ result' = NoResult
       ELSE /\ raised' = "none"
            /\ result' = [kind |-> "point", value |-> transform(inst, p[1], p[2])]
    /\ UNCHANGED <<gapVars, inst, store, saved_fit>>

Transform == \E p \in TestPoints : TransformAt(p)

\* the coefficient check comes first, then create_polynomial_matrix, which
\* fails on the one-dimensional array an empty list gives
TransformBatch ==
    \E XY \in Batches :
        /\ op' = [kind |-> "transform_batch", arg |-> XY]
        /\ IF NotFitted(inst)
           THEN /\ raised' = "NotFitted"
                /\ result' = NoResult
           ELSE IF Len(XY) = 0
           THEN /\ raised' = "IndexError"
                /\ result' = NoResult
           ELSE /\ raised' = "none"
                /\ result' = [kind |-> "array", value |-> transform_batch(inst, XY)]
        /\ UNCHANGED <<gapVars, inst, store, saved_fit>>

Abs(v) == IF v < 0 THEN 0 - v ELSE v

\* the dict validate returns
ValidationMetrics(t, points) ==
    LET n == Len(points)
        latlon_pred == transform_batch(t, XYOf(points))
        errors_lat == Stored([k \in 0..(n - 1) |-> latlon_pred[k][0] - LatOf(points)[k]])
        errors_lon == Stored([k \in 0..(n - 1) |-> latlon_pred[k][1] - LonOf(points)[k]])
        zero == [k \in 0..(n - 1) |-> 0]
    IN  [rmse_lat |-> Rmse(errors_lat, zero),
         rmse_lon |-> Rmse(errors_lon, zero),
         rmse_meters |-> Rmse(errors_lat, zero) * 111000,
         max_error_lat |-> SetMax({Abs(errors_lat[k]) : k \in 0..(n - 1)}),
         max_error_lon |-> SetMax({Abs(errors_lon[k]) : k \in 0..(n - 1)}),
         max_error_meters |-> SetMax({Abs(errors_lat[k]) : k \in 0..(n - 1)}) * 111000,
         mean_error_lat |-> SumTo(errors_lat, n) \div n,
         mean_error_lon |-> SumTo(errors_lon, n) \div n,
         point_count |-> n]

\* validate that keeps the rmse it measured in the instance
Validate_StoresRmse ==
    \E points \in ControlPointLists :
        /\ op' = [kind |-> "validate", arg |-> points]
        /\ IF NotFitted(inst)
           THEN /\ raised' = "NotFitted"
                /\ result' = NoResult
                /\ inst' = inst
           ELSE IF Len(points) = 0
           THEN /\ raised' = "IndexError"
                /\ result' = NoResult
                /\ inst' = inst
           ELSE /\ raised' = "none"
                /\ result' = [kind |-> "metrics", value |-> ValidationMetrics(inst, points)]
                /\ inst' = [inst EXCEPT
                              !.rmse_lat = Float(ValidationMetrics(inst, points).rmse_lat)]
        /\ UNCHANGED <<gapVars, store, saved_fit>>

\* validate: transform_batch on the points' (x, y), then the error metrics
Validate ==
    \E points \in ControlPointLists :
        /\ op' = [kind |-> "validate", arg |-> points]
        /\ IF NotFitted(inst)
           THEN /\ raised' = "NotFitted"
                /\ result' = NoResult
           ELSE IF Len(points) = 0
           THEN /\ raised' = "IndexError"
                /\ result' = NoResult
           ELSE /\ raised' = "none"
                /\ result' = [kind |-> "metrics", value |-> ValidationMetrics(inst, points)]
        /\ UNCHANGED <<gapVars, inst, store, saved_fit>>

\* a row of coordinate_transforms as save_to_database writes it; created_at
\* (the time of the write) is left out
RowOf(t, description, created_by) ==
    [name |-> t.name, description |-> description,
     coefficients_lon |-> ToList(t.coeffs_lon),
     coefficients_lat |-> ToList(t.coeffs_lat),
     rmse_lon |-> t.rmse_lon, rmse_lat |-> t.rmse_lat,
     rmse_meters |-> t.rmse_meters,
     control_point_count |-> t.control_point_count,
     created_by |-> created_by]

\* INSERT that does not look for a row of the same name
Upsert_InsertOnly(rows, r) == rows \cup {r}

\* INSERT ... ON CONFLICT (name) DO UPDATE SET every other column
Upsert(rows, r) == {q \in rows : q.name # r.name} \cup {r}

\* name is the key of a stored transformation: a row needs one
NameIsKey(name) == name # NoName

\* (description, created_by) pairs of the saves tried
SaveArgs == {<<"", "system">>, <<"refit", "alice">>}

\* save_to_database that writes whatever the instance holds
SaveToDatabase_NoCheck(description, created_by) ==
    /\ op' = [kind |-> "save_to_database", arg |-> <<description, created_by>>]
    /\ result' = NoResult
    /\ IF ~inst.db_conn
       THEN raised' = "NoConnection" /\ UNCHANGED <<store, saved_fit>>
       ELSE IF ~NameIsKey(inst.name)
       THEN raised' = "SaveFailed" /\ UNCHANGED <<store, saved_fit>>
       ELSE /\ store' = Upsert(store,
                           [name |-> inst.name, description |-> description,
                            coefficients_lon |-> inst.coeffs_lon,
                            coefficients_lat |-> inst.coeffs_lat,
                            rmse_lon |-> inst.rmse_lon, rmse_lat |-> inst.rmse_lat,
                            rmse_meters |-> inst.rmse_meters,
                            control_point_count |-> inst.control_point_count,
                            created_by |-> created_by])
            /\ saved_fit' = [saved_fit EXCEPT ![inst.name] =
                                [coeffs_lon |-> inst.coeffs_lon,
                                 coeffs_lat |-> inst.coeffs_lat]]
            /\ raised' = IF inst.rmse_meters = None THEN "SaveFailed" ELSE "none"
    /\ UNCHANGED <<gapVars, inst>>

\* save_to_database: the two checks, then the upsert and the commit, then
\* the report, which formats rmse_meters and fails on None after the commit;
\* every exception inside the try leaves as "Failed to save transformation"
SaveToDatabase(description, created_by) ==
    /\ op' = [kind |-> "save_to_database", arg |-> <<description, created_by>>]
    /\ result' = NoResult
    /\ IF ~inst.db_conn
       THEN raised' = "NoConnection" /\ UNCHANGED <<store, saved_fit>>
       ELSE IF NotFitted(inst)
       THEN raised' = "NoCoefficients" /\ UNCHANGED <<store, saved_fit>>
       ELSE IF ~NameIsKey(inst.name)
       THEN raised' = "SaveFailed" /\ UNCHANGED <<store, saved_fit>>
       ELSE /\ store' = Upsert(store, RowOf(inst, description, created_by))
            /\ saved_fit' = [saved_fit EXCEPT ![inst.name] =
                                [coeffs_lon |-> inst.coeffs_lon,
                                 coeffs_lat |-> inst.coeffs_lat]]
            /\ raised' = IF inst.rmse_meters = None THEN "SaveFailed" ELSE "none"
    /\ UNCHANGED <<gapVars, inst>>

\* --name arguments of the script runs
ScriptNames == {"t1"}

\* main of create_transformation_standalone.py: fit, then the same upsert
\* with created_by 'system'; an empty CSV fails in create_polynomial_matrix
StandaloneMain ==
    \E name \in ScriptNames, points \in ControlPointLists :
        /\ op' = [kind |-> "standalone", arg |-> <<name, points>>]
        /\ result' = NoResult
        /\ IF Len(points) = 0
           THEN raised' = "IndexError" /\ UNCHANGED <<store, saved_fit>>
           ELSE LET f == Fits[points]
                IN  /\ store' = Upsert(store,
                                   [name |-> name, description |-> "",
                                    coefficients_lon |-> ToList(f.coeffs_lon),
                                    coefficients_lat |-> ToList(f.coeffs_lat),
                                    rmse_lon |-> Float(f.rmse_lon),
                                    rmse_lat |-> Float(f.rmse_lat),
                                    rmse_meters |-> Float(f.rmse_meters),
                                    control_point_count |-> Len(points),
                                    created_by |-> "system"])
                    /\ saved_fit' = [saved_fit EXCEPT ![name] =
                                        [coeffs_lon |-> f.coeffs_lon,
                                         coeffs_lat |-> f.coeffs_lat]]
                    /\ raised' = "none"
        /\ UNCHANGED <<gapVars, inst>>

\* load_name = name or self.name
LoadName(t, name) == IF name # NoName THEN name ELSE t.name

\* Python truth of a stored float: neither NULL nor zero
Truthy(f) == f # None /\ f[1] # 0

\* the assignments of load_from_database with row[0] and row[1] exchanged
LoadRow_SwappedColumns(t, load_name, row) ==
    [t EXCEPT !.name = load_name,
              !.coeffs_lon = NpArray(row.coefficients_lat),
              !.coeffs_lat = NpArray(row.coefficients_lon),
              !.rmse_lon = row.rmse_lon,
              !.rmse_lat = row.rmse_lat,
              !.rmse_meters = IF Truthy(row.rmse_meters) THEN row.rmse_meters ELSE None,
              !.control_point_count = row.control_point_count]

\* the assignments of load_from_database from the fetched row
LoadRow(t, load_name, row) ==
    [t EXCEPT !.name = load_name,
              !.coeffs_lon = NpArray(row.coefficients_lon),
              !.coeffs_lat = NpArray(row.coefficients_lat),
              !.rmse_lon = row.rmse_lon,
              !.rmse_lat = row.rmse_lat,
              !.rmse_meters = IF Truthy(row.rmse_meters) THEN row.rmse_meters ELSE None,
              !.control_point_count = row.control_point_count]

\* load_from_database that takes the name before it looks for the row
LoadFromDatabase_NameFirst(name) ==
    /\ op' = [kind |-> "load_from_database", arg |-> name]
    /\ result' = NoResult
    /\ IF ~inst.db_conn
       THEN raised' = "NoConnection" /\ inst' = inst
       ELSE IF LoadName(inst, name) = NoName
       THEN raised' = "NoName" /\ inst' = inst
       ELSE LET found == {r \in store : r.name = LoadName(inst, name)}
            IN  IF found = {}
                THEN raised' = "NotFound"
                     /\ inst' = [inst EXCEPT !.name = LoadName(inst, name)]
                ELSE LET row == CHOOSE r \in found : TRUE
                     IN  /\ inst' = LoadRow(inst, LoadName(inst, name), row)
                         /\ raised' = IF Truthy(row.rmse_meters) THEN "none"
                                      ELSE "TypeError"
    /\ UNCHANGED <<gapVars, store, saved_fit>>

\* load_from_database: the checks, the fetch, "not found" before anything
\* is assigned, the assignments, then the report, which formats rmse_meters
\* and fails on None
LoadFromDatabase(name) ==
    /\ op' = [kind |-> "load_from_database", arg |-> name]
    /\ result' = NoResult
    /\ IF ~inst.db_conn
       THEN raised' = "NoConnection" /\ inst' = inst
       ELSE IF LoadName(inst, name) = NoName
       THEN raised' = "NoName" /\ inst' = inst
       ELSE LET found == {r \in store : r.name = LoadName(inst, name)}
            IN  IF found = {}
                THEN raised' = "NotFound" /\ inst' = inst
                ELSE LET row == CHOOSE r \in found : TRUE
                     IN  /\ inst' = LoadRow(inst, LoadName(inst, name), row)
                         /\ raised' = IF Truthy(row.rmse_meters) THEN "none"
                                      ELSE "TypeError"
    /\ UNCHANGED <<gapVars, store, saved_fit>>

\* CoordinateTransform(name=..., db_conn=...): a new instance replaces the old
Construct ==
    \E name \in Names \cup {NoName}, db_conn \in BOOLEAN :
        /\ op' = [kind |-> "init", arg |-> <<name, db_conn>>]
        /\ inst' = CoordinateTransform(name, db_conn)
        /\ result' = NoResult
        /\ raised' = "none"
        /\ UNCHANGED <<gapVars, store, saved_fit>>

\* no CoordinateTransform call has been made
NoOp == [kind |-> "none", arg |-> <<>>]

\* a transformation stored before the run, every coefficient different
StoredBefore ==
    [name |-> "t2", description |-> "survey grid",
     coefficients_lon |-> <<1, 2, 3, 4, 5, 6, 7, 8, 9, 10>>,
     coefficients_lat |-> <<20, 19, 18, 17, 16, 15, 14, 13, 12, 11>>,
     rmse_lon |-> Float(2), rmse_lat |-> Float(1), rmse_meters |-> Float(111000),
     control_point_count |-> 12, created_by |-> "system"]

\* ------------------------------------------------------------------------
\* Threads that share one CoordinateTransform instance
\* ------------------------------------------------------------------------

MaxReaders == 2     \* threads that call transform / transform_batch
MaxRefits == 1      \* calculate_coefficients calls of the writing thread

Readers == 1..MaxReaders

\* the calls a reading thread makes: transform at a point, transform_batch
\* of the longest XY list
ReaderCalls ==
    {[kind |-> "transform", arg |-> p] : p \in TestPoints}
        \cup {[kind |-> "transform_batch",
               arg |-> [k \in 1..MaxBatch |-> <<k, 1 + (k % 2)>>]]}

\* the control-point lists of a re-fit
RefitLists == {ControlPoints(kind, MaxPoints) : kind \in PointKinds}

\* a reading thread outside a call; lon, lat are its locals, lon_fit and
\* lat_fit tell which fit wrote the vector each was computed from, alone is
\* what the call returns on the instance as it was when the call began, and
\* overlapped tells whether a fit ran during the call
IdleReader ==
    [pc |-> "idle", call |-> NoOp, lon |-> <<>>, lat |-> <<>>, ret |-> NoResult,
     raised |-> "none", lon_fit |-> 0, lat_fit |-> 0, alone |-> NoResult,
     overlapped |-> FALSE]

\* the writing thread outside a call; fits counts its calls, lon_fit and
\* lat_fit tell which fit wrote the coeffs_lon / coeffs_lat now in the instance
IdleWriter == [pc |-> "idle", points |-> <<>>, fits |-> 0, lon_fit |-> 0, lat_fit |-> 0]

\* what a call returns when nothing else runs
RunAlone(t, call) ==
    IF NotFitted(t) THEN NoResult
    ELSE IF call.kind = "transform"
    THEN [kind |-> "point", value |-> transform(t, call.arg[1], call.arg[2])]
    ELSE [kind |-> "array", value |-> transform_batch(t, call.arg)]

\* a step of the writing thread happens during every call that is under way
MarkOverlap(rs) ==
    [r \in Readers |->
        IF rs[r].pc \in {"checked", "lon_done"}
        THEN [rs[r] EXCEPT !.overlapped = TRUE] ELSE rs[r]]

\* transform / transform_batch, the check of the coefficients
StartRead(r) ==
    /\ readers[r].pc = "idle"
    /\ \E call \in ReaderCalls :
         readers' = [readers EXCEPT ![r] =
            IF NotFitted(inst)
            THEN [IdleReader EXCEPT !.pc = "done", !.call = call,
                                    !.raised = "NotFitted"]
            ELSE [IdleReader EXCEPT !.pc = "checked", !.call = call,
                                    !.alone = RunAlone(inst, call),
                                    !.overlapped = (writer.pc # "idle")]]
    /\ UNCHANGED <<queryVars, raised, tVars, writer>>

\* the polynomial of a call, evaluated against the coefficient vector v
Evaluate(call, v) ==
    IF call.kind = "transform"
    THEN Dot(v, Terms(call.arg[1], call.arg[2]))
    ELSE MatVec(create_polynomial_matrix(call.arg), v)

\* the line that reads self.coeffs_lon, leaving its value where every
\* thread's call will pick it up
ReadLon_SharedScratch(r) ==
    /\ readers[r].pc = "checked"
    /\ readers' = [q \in Readers |->
                     IF q = r
                     THEN [readers[q] EXCEPT
                             !.pc = "lon_done",
                             !.lon = Evaluate(readers[r].call, inst.coeffs_lon),
                             !.lon_fit = writer.lon_fit]
                     ELSE [readers[q] EXCEPT
                             !.lon = Evaluate(readers[r].call, inst.coeffs_lon)]]
    /\ UNCHANGED <<queryVars, raised, tVars, writer>>

\* lon = float(np.dot(self.coeffs_lon, terms)) / lons = A @ self.coeffs_lon
ReadLon(r) ==
    /\ readers[r].pc = "checked"
    /\ readers' = [readers EXCEPT ![r] =
                     [@ EXCEPT !.pc = "lon_done",
                               !.lon = Evaluate(readers[r].call, inst.coeffs_lon),
                               !.lon_fit = writer.lon_fit]]
    /\ UNCHANGED <<queryVars, raised, tVars, writer>>

\* lat = float(np.dot(self.coeffs_lat, terms)) / lats = A @ self.coeffs_lat,
\* and the return of (lat, lon) / column_stack([lats, lons])
ReadLat(r) ==
    /\ readers[r].pc = "lon_done"
    /\ LET call == readers[r].call
           lat == Evaluate(call, inst.coeffs_lat)
           lon == readers[r].lon
       IN  readers' = [readers EXCEPT ![r] =
              [@ EXCEPT !.pc = "done",
                        !.lat = lat,
                        !.lat_fit = writer.lat_fit,
                        !.ret = IF call.kind = "transform"
                                THEN [kind |-> "point", value |-> <<lat, lon>>]
                                ELSE [kind |-> "array",
                                      value |-> Stored([k \in DOMAIN lat |->
                                                   NpArray(<<lat[k], lon[k]>>)])]]]
    /\ UNCHANGED <<queryVars, raised, tVars, writer>>

\* calculate_coefficients up to the first assignment: the arrays and A
BeginFit ==
    /\ writer.pc = "idle"
    /\ writer.fits < MaxRefits
    /\ \E points \in RefitLists :
         writer' = [writer EXCEPT !.pc = "solving", !.points = points,
                                  !.fits = @ + 1]
    /\ readers' = MarkOverlap(readers)
    /\ UNCHANGED <<queryVars, raised, tVars>>

\* self.coeffs_lon, _, _, _ = np.linalg.lstsq(A, latlon[:, 1], rcond=None)
AssignLon ==
    /\ writer.pc = "solving"
    /\ inst' = [inst EXCEPT !.coeffs_lon = Fits[writer.points].coeffs_lon]
    /\ writer' = [writer EXCEPT !.pc = "lon_assigned", !.lon_fit = writer.fits]
    /\ readers' = MarkOverlap(readers)
    /\ UNCHANGED <<queryVars, raised, store, op, result, saved_fit>>

\* self.coeffs_lat, _, _, _ = np.linalg.lstsq(A, latlon[:, 0], rcond=None)
AssignLat ==
    /\ writer.pc = "lon_assigned"
    /\ inst' = [inst EXCEPT !.coeffs_lat = Fits[writer.points].coeffs_lat]
    /\ writer' = [writer EXCEPT !.pc = "lat_assigned", !.lat_fit = writer.fits]
    /\ readers' = MarkOverlap(readers)
    /\ UNCHANGED <<queryVars, raised, store, op, result, saved_fit>>

\* the rest of calculate_coefficients: the rmse fields and the point count
FinishFit ==
    /\ writer.pc = "lat_assigned"
    /\ LET f == Fits[writer.points]
       IN  inst' = [inst EXCEPT !.rmse_lon = Float(f.rmse_lon),
                                !.rmse_lat = Float(f.rmse_lat),
                                !.rmse_meters = Float(f.rmse_meters),
                                !.control_point_count = Len(writer.points)]
    /\ writer' = [writer EXCEPT !.pc = "idle"]
    /\ readers' = MarkOverlap(readers)
    /\ UNCHANGED <<queryVars, raised, store, op, result, saved_fit>>

\* ------------------------------------------------------------ initial state

\* no transformation stored, a default instance, no call made
NoTransform ==
    /\ inst = CoordinateTransform(NoName, FALSE)
    /\ store = {}
    /\ op = NoOp
    /\ result = NoResult
    /\ saved_fit = [n \in Names |-> None]
    /\ readers = [r \in Readers |-> IdleReader]
    /\ writer = IdleWriter

\* no call has started
NoCall ==
    /\ pc = "idle"
    /\ raised = "none"
    /\ line_number = 0
    /\ min_gap_size = 0
    /\ results = <<>>
    /\ idx = 0
    /\ gaps = <<>>
    /\ gap_start = None
    /\ gap_size = 0
    /\ ret = <<>>
    /\ apc = "idle"
    /\ caller = "cmd"
    /\ agg_min = 0
    /\ agg_results = <<>>
    /\ agg_idx = 0
    /\ lines_with_gaps = <<>>
    /\ agg_ret = <<>>
    /\ stats = EmptyStats
    /\ sev_idx = 0
    /\ line_report = ""
    /\ query_outcome = "none"
    /\ taken = 0
    /\ returned = 0
    /\ calls = 0
    /\ history = {}

\* one line; every set of its shotpoints, up to MaxDupRows of them stored
\* twice (coordinates is keyed by _id, not by (line, shotpoint)); any subset
\* of them deployed (global_deployments is unique per (line, shotpoint))
Init ==
    /\ \E S \in SUBSET Shotpoints :
         \E D \in {d \in SUBSET S : Cardinality(d) <= MaxDupRows} :
            /\ coordinates = [k \in {1} \X Shotpoints |->
                                IF k[2] \in D THEN 2 ELSE IF k[2] \in S THEN 1 ELSE 0]
            /\ global_deployments \in SUBSET ({1} \X S)
    /\ swath_lines = {1}
    /\ NoCall
    /\ db_faulty = FALSE
    /\ NoTransform

Next == CallGetLineGaps \/ LoopEmpty \/ LoopFilled \/ ReturnGaps

Spec == Init /\ [][Next]_vars

\* lines 1..MaxLines, each with shotpoints 1..AggMaxSP, any set of them
\* deployed; the swath holds all lines or all but the first
InitAgg ==
    /\ coordinates = [k \in (1..MaxLines) \X (1..AggMaxSP) |-> 1]
    /\ global_deployments \in SUBSET ((1..MaxLines) \X (1..AggMaxSP))
    /\ swath_lines \in {1..MaxLines, 2..MaxLines}
    /\ NoCall
    /\ db_faulty = FALSE
    /\ NoTransform

NextAgg ==
    \/ CallGetAllLinesWithGaps \/ AllLinesIter \/ AllLinesReturn
    \/ CallGetSwathGaps \/ SwathIter \/ SwathReturn

SpecAgg == InitAgg /\ [][NextAgg]_vars

\* a line with a empty shotpoints, one deployed shotpoint, then b empty ones
RunsCoverage(line, a, b) ==
    [coords |-> {line} \X (1..(a + 1 + b)), deps |-> {<<line, a + 1>>}]

TailRuns == {0, 5}
SecondRuns == {0, 5, 15}

\* line 1 with a leading run of 0..MaxRun empty shotpoints and a trailing
\* run of 0 or 5; line 2 with a leading run of 0, 5 or 15
InitSeverity ==
    /\ \E a \in 0..MaxRun, b \in TailRuns, c \in SecondRuns :
         LET l1 == RunsCoverage(1, a, b)
             l2 == RunsCoverage(2, c, 0)
         IN  /\ coordinates = [k \in l1.coords \cup l2.coords |-> 1]
             /\ global_deployments = l1.deps \cup l2.deps
    /\ swath_lines = {1, 2}
    /\ NoCall
    /\ db_faulty = FALSE
    /\ NoTransform

NextSeverity ==
    \/ CallGetGapStatistics \/ AllLinesIter \/ StatsBuild
    \/ CategorizeLine \/ ReturnStats \/ CmdGapsLine

SpecSeverity == InitSeverity /\ [][NextSeverity]_vars

\* one line with shotpoints 1..AggMaxSP, any set of them deployed; the
\* database healthy or failing queries at will; the caller makes up to
\* MaxCalls get_line_gaps calls, one after the other
InitQueries ==
    /\ coordinates = [k \in {1} \X (1..AggMaxSP) |-> 1]
    /\ global_deployments \in SUBSET ({1} \X (1..AggMaxSP))
    /\ swath_lines = {1}
    /\ NoCall
    /\ NoTransform
    /\ db_faulty \in BOOLEAN

NextQueries == CallGetLineGaps \/ LoopEmpty \/ LoopFilled \/ ReturnGaps \/ Again

SpecQueries == InitQueries /\ [][NextQueries]_vars

\* MaxPoolLines lines of StatsMinGapSize shotpoints each, the first
\* shotpoint of any of them deployed (a line without it has one gap of
\* StatsMinGapSize points); queries may fail
InitPool ==
    /\ coordinates = [k \in (1..MaxPoolLines) \X (1..StatsMinGapSize) |-> 1]
    /\ global_deployments \in SUBSET ((1..MaxPoolLines) \X {1})
    /\ swath_lines = 1..MaxPoolLines
    /\ NoCall
    /\ NoTransform
    /\ db_faulty = TRUE

NextPool ==
    \/ CallGetAllLinesWithGaps \/ AllLinesIter \/ AllLinesReturn
    \/ CallGetGapStatistics \/ StatsBuild \/ CategorizeLine \/ ReturnStats
    \/ CallGetSwathGaps \/ SwathIter \/ SwathReturn
    \/ CmdGapsLine
    \/ NextCommand

SpecPool == InitPool /\ [][NextPool]_vars

\* no survey data; the table empty or holding one transformation; an
\* instance constructed with some name and with or without a connection
InitTransform ==
    /\ coordinates = [k \in {} |-> 0]
    /\ global_deployments = {}
    /\ swath_lines = {}
    /\ NoCall
    /\ db_faulty = FALSE
    /\ \E name \in Names \cup {NoName}, db_conn \in BOOLEAN :
         inst = CoordinateTransform(name, db_conn)
    /\ store \in {{}, {StoredBefore}}
    /\ saved_fit = [n \in Names |->
                      IF \E r \in store : r.name = n
                      THEN [coeffs_lon |-> NpArray(StoredBefore.coefficients_lon),
                            coeffs_lat |-> NpArray(StoredBefore.coefficients_lat)]
                      ELSE None]
    /\ op = NoOp
    /\ result = NoResult
    /\ readers = [r \in Readers |-> IdleReader]
    /\ writer = IdleWriter

NextTransform ==
    \/ Construct
    \/ CalculateCoefficients
    \/ Transform
    \/ TransformBatch
    \/ Validate
    \/ \E a \in SaveArgs : SaveToDatabase(a[1], a[2])
    \/ \E name \in Names \cup {NoName} : LoadFromDatabase(name)
    \/ StandaloneMain

SpecTransform == InitTransform /\ [][NextTransform]_vars

\* ---------------- fits of control points with one point far off

\* largest distance, in units of lat, of the point that is off
MaxOutlier == 26

\* ten positions on which a cubic in (x, y) is determined: x + y <= 3
LatticeXY ==
    << <<0, 0>>, <<1, 0>>, <<2, 0>>, <<3, 0>>, <<0, 1>>,
       <<1, 1>>, <<2, 1>>, <<0, 2>>, <<1, 2>>, <<0, 3>> >>

\* the position of the control points that are off
OutlierAt == {1, 6}

\* control points on LatticeXY with lat = y and lon = x, but at position at:
\*   "exact"    nothing is off
\*   "pair"     one point with lat m too high, one with lat m too low
\*   "cluster"  one point with lat m too high, m points with lat 1 too low
SurveyPoints(kind, m, at) ==
    LET Pt(k, off) == [x |-> LatticeXY[k][1], y |-> LatticeXY[k][2],
                       lat |-> LatticeXY[k][2] + off, lon |-> LatticeXY[k][1]]
        base == [k \in 1..Len(LatticeXY) |->
                    Pt(k, IF k = at /\ kind # "exact" THEN m ELSE 0)]
    IN  IF kind = "exact" THEN base
        ELSE IF kind = "pair" THEN Append(base, Pt(at, 0 - m))
        ELSE base \o [i \in 1..m |-> Pt(at, 0 - 1)]

SurveyLists ==
    {SurveyPoints("exact", 0, 1)}
        \cup {SurveyPoints(kind, m, at) :
                 kind \in {"pair", "cluster"}, m \in 1..MaxOutlier, at \in OutlierAt}

\* the fits of the survey lists
SurveyFits == [points \in SurveyLists |-> calculate_transformation(points)]

\* calculate_coefficients on a survey list
FitSurvey == \E points \in SurveyLists : CalculateCoefficientsOn(points, SurveyFits)

\* transform at the position of a control point
TransformControlPoint ==
    \E k \in 1..Len(LatticeXY) : TransformAt(LatticeXY[k])

\* a new instance, not fitted; no survey data and an empty table
InitFit ==
    /\ coordinates = [k \in {} |-> 0]
    /\ global_deployments = {}
    /\ swath_lines = {}
    /\ NoCall
    /\ db_faulty = FALSE
    /\ inst = CoordinateTransform(NoName, FALSE)
    /\ store = {}
    /\ saved_fit = [n \in Names |-> None]
    /\ op = NoOp
    /\ result = NoResult
    /\ readers = [r \in Readers |-> IdleReader]
    /\ writer = IdleWriter

NextFit == FitSurvey \/ TransformControlPoint

SpecFit == InitFit /\ [][NextFit]_vars

\* an instance that has loaded the stored transformation, shared by
\* MaxReaders reading threads and one thread that may fit it again
InitThreads ==
    /\ coordinates = [k \in {} |-> 0]
    /\ global_deployments = {}
    /\ swath_lines = {}
    /\ NoCall
    /\ db_faulty = FALSE
    /\ inst = LoadRow(CoordinateTransform("t2", TRUE), "t2", StoredBefore)
    /\ store = {StoredBefore}
    /\ saved_fit = [n \in Names |->
                      IF n = "t2"
                      THEN [coeffs_lon |-> NpArray(StoredBefore.coefficients_lon),
                            coeffs_lat |-> NpArray(StoredBefore.coefficients_lat)]
                      ELSE None]
    /\ op = NoOp
    /\ result = NoResult
    /\ readers = [r \in Readers |-> IdleReader]
    /\ writer = IdleWriter

NextThreads ==
    \/ \E r \in Readers : StartRead(r)
    \/ \E r \in Readers : ReadLon(r)
    \/ \E r \in Readers : ReadLat(r)
    \/ BeginFit
    \/ AssignLon
    \/ AssignLat
    \/ FinishFit

SpecThreads == InitThreads /\ [][NextThreads]_vars

\* ------------------------------------------------------------------------
\* Reference notions over a coverage sequence, independent of the scan
\* ------------------------------------------------------------------------

StrictlyAscending(rows) ==
    \A i \in 1..(Len(rows) - 1) : rows[i][1] < rows[i + 1][1]

IsEmptyRecord(rows, i) == rows[i][2] = 0

\* records that begin, and records that end, a run of empty records
RunStarts(rows) ==
    {i \in 1..Len(rows) :
        IsEmptyRecord(rows, i) /\ (i = 1 \/ ~IsEmptyRecord(rows, i - 1))}

RunEnds(rows) ==
    {j \in 1..Len(rows) :
        IsEmptyRecord(rows, j) /\ (j = Len(rows) \/ ~IsEmptyRecord(rows, j + 1))}

\* <<i, j>>: records i..j are all empty and the run cannot be extended
MaximalRuns(rows) ==
    {<<i, SetMin({j \in RunEnds(rows) : j >= i})>> : i \in RunStarts(rows)}

RunLength(r) == r[2] - r[1] + 1

QualifiedRuns(rows, min) == {r \in MaximalRuns(rows) : RunLength(r) >= min}

\* the k-th run of R in sequence order
RunAt(R, k) == CHOOSE r \in R : Cardinality({q \in R : q[1] < r[1]}) = k - 1

\* number of consecutive empty records ending at record i
RECURSIVE EmptyRunEndingAt(_, _)
EmptyRunEndingAt(rows, i) ==
    IF i = 0 \/ ~IsEmptyRecord(rows, i) THEN 0
    ELSE 1 + EmptyRunEndingAt(rows, i - 1)

\* ------------------------------------------------------------------------
\* Claims about get_line_gaps (specification Spec)
\* ------------------------------------------------------------------------

\* C1: for min_gap_size >= 1 the returned list has exactly one gap per
\* maximal run of empty records of length >= min_gap_size, in sequence
\* order, each starting at the first record of its run; nothing else is
\* returned (so [] for an empty or a fully deployed line).
C1_OneGapPerQualifiedRun ==
    (pc = "done" /\ min_gap_size >= 1) =>
        LET Q == QualifiedRuns(results, min_gap_size)
        IN  /\ Len(ret) = Cardinality(Q)
            /\ \A k \in 1..Len(ret) :
                 ret[k].start_shotpoint = results[RunAt(Q, k)[1]][1]

C1_Witness ==
    /\ pc = "done"
    /\ min_gap_size >= 2
    /\ Len(ret) >= 1
    /\ Cardinality(MaximalRuns(results)) >= 2
    /\ \E r \in MaximalRuns(results) : RunLength(r) < min_gap_size

\* C2 as stated: on a strictly ascending sequence every gap has
\* size = end_shotpoint - start_shotpoint + 1, whatever the numbering step.
C2_SizeIsIdentifierSpan ==
    (pc = "done" /\ StrictlyAscending(results)) =>
        \A k \in 1..Len(ret) :
            ret[k].size = ret[k].end_shotpoint - ret[k].start_shotpoint + 1

\* C2 amended: on a strictly ascending sequence the size of a gap is the
\* number of records whose shotpoint lies in start..end (all of them
\* empty), so size = end - start + 1 exactly when every identifier in
\* start..end is a shotpoint of the line.
C2_SizeCountsRecords ==
    (pc = "done" /\ StrictlyAscending(results)) =>
        \A k \in 1..Len(ret) :
            LET g == ret[k]
                inside == {i \in 1..Len(results) :
                              /\ g.start_shotpoint <= results[i][1]
                              /\ results[i][1] <= g.end_shotpoint}
            IN  /\ g.size = Cardinality(inside)
                /\ \A i \in inside : IsEmptyRecord(results, i)
                /\ (g.size = g.end_shotpoint - g.start_shotpoint + 1)
                     <=> \A sp \in g.start_shotpoint..g.end_shotpoint :
                            \E i \in inside : results[i][1] = sp

C2_Witness ==
    /\ pc = "done"
    /\ StrictlyAscending(results)
    /\ \E k \in 1..Len(ret) :
         /\ ret[k].size >= 2
         /\ ret[k].size # ret[k].end_shotpoint - ret[k].start_shotpoint + 1
    /\ \E k \in 1..Len(ret) :
         ret[k].size = ret[k].end_shotpoint - ret[k].start_shotpoint + 1

\* C3: when a filled record closes an open gap that meets the threshold,
\* the gap just emitted ends at the shotpoint of the previous record, the
\* last empty record of the run.
C3_EndIsPreviousRecord ==
    (/\ pc = "loop"
     /\ idx >= 2
     /\ ~IsEmptyRecord(results, idx)
     /\ EmptyRunEndingAt(results, idx - 1) >= 1
     /\ EmptyRunEndingAt(results, idx - 1) >= min_gap_size) =>
        /\ gaps # <<>>
        /\ gaps[Len(gaps)].end_shotpoint = results[idx - 1][1]

\* C4: a run of empty records that reaches the end of the sequence and
\* meets the threshold is the last gap returned, ending at the last
\* shotpoint of the sequence.
C4_TrailingGapEmitted ==
    (pc = "done" /\ results # <<>>) =>
        LET n == EmptyRunEndingAt(results, Len(results))
        IN  (n >= 1 /\ n >= min_gap_size) =>
               /\ ret # <<>>
               /\ ret[Len(ret)].end_shotpoint = results[Len(results)][1]
               /\ ret[Len(ret)].start_shotpoint = results[Len(results) - n + 1][1]
               /\ ret[Len(ret)].size = n

C4_Witness ==
    /\ pc = "done"
    /\ results # <<>>
    /\ EmptyRunEndingAt(results, Len(results)) >= 2
    /\ EmptyRunEndingAt(results, Len(results)) >= min_gap_size
    /\ Len(ret) >= 2

\* C5: a filled record resets gap_start to None and gap_size to 0 whether
\* or not the run met the threshold; the open gap always describes only the
\* current run; every returned gap has the start and the length of one
\* maximal run that meets the threshold, so a shorter run is never reported
\* whole or in part.
C5_ShortRunsDropped ==
    /\ (pc = "loop" /\ idx >= 1 /\ ~IsEmptyRecord(results, idx)) =>
          (gap_start = None /\ gap_size = 0)
    /\ pc = "loop" =>
          /\ gap_size = EmptyRunEndingAt(results, idx)
          /\ gap_size > 0 => gap_start = <<results[idx - gap_size + 1][1]>>
    /\ pc = "done" =>
          \A k \in 1..Len(ret) :
              /\ ret[k].size >= min_gap_size
              /\ \E r \in QualifiedRuns(results, min_gap_size) :
                    /\ ret[k].size = RunLength(r)
                    /\ ret[k].start_shotpoint = results[r[1]][1]

C5_Witness ==
    /\ pc = "done"
    /\ ret # <<>>
    /\ \E r \in MaximalRuns(results) :
         /\ RunLength(r) < min_gap_size
         /\ \E q \in QualifiedRuns(results, min_gap_size) : r[2] < q[1]

\* C6: the returned gaps are in strictly ascending shotpoint order and
\* pairwise disjoint: each gap ends before the next one starts.
C6_GapsAscendingDisjoint ==
    pc = "done" =>
        \A k \in 1..(Len(ret) - 1) :
            /\ ret[k].end_shotpoint < ret[k + 1].start_shotpoint
            /\ ret[k].start_shotpoint < ret[k + 1].start_shotpoint

C6_Witness ==
    /\ pc = "done"
    /\ Len(ret) >= 3

\* C7: a sequence whose shotpoints are not strictly ascending is rejected
\* with InvalidInput and no gap list is returned for it.
C7_RejectsNonAscending ==
    (pc = "done" /\ ~StrictlyAscending(results)) => raised = "InvalidInput"

\* ------------------------------------------------------------------------
\* Claims about severity and aggregation (SpecSeverity, SpecAgg)
\* ------------------------------------------------------------------------

RECURSIVE SumRunLengths(_)
SumRunLengths(R) ==
    IF R = {} THEN 0
    ELSE LET r == CHOOSE q \in R : TRUE
         IN  RunLength(r) + SumRunLengths(R \ {r})

\* lines that have a coordinates row
DbLines == {k[1] : k \in {d \in DOMAIN coordinates : coordinates[d] > 0}}

\* empty records of a line that lie in maximal runs of at least min records
LineTotal(line, min) ==
    SumRunLengths(QualifiedRuns(
        CoverageQuery(coordinates, global_deployments, line), min))

Buckets == {"critical", "high", "medium", "low"}

BucketsOf(line) ==
    {b \in Buckets :
        \E i \in 1..Len(stats.lines_by_severity[b]) :
            stats.lines_by_severity[b][i] = line}

\* C8: severity tiers use strictly-greater comparisons: a total above 50 is
\* critical, 21..50 is high (50 itself is high), 11..20 is medium (20 itself
\* is medium) and exactly 10 is low, in get_gap_statistics and in the
\* severity line of format_line_gaps alike.
C8_StrictTierBoundaries ==
    /\ apc = "stats_done" =>
         \A line \in DbLines :
            LET t == LineTotal(line, StatsMinGapSize)
            IN  /\ t > 50 => BucketsOf(line) = {"critical"}
                /\ t \in 21..50 => BucketsOf(line) = {"high"}
                /\ t \in 11..20 => BucketsOf(line) = {"medium"}
                /\ t = 10 => BucketsOf(line) = {"low"}
    /\ apc = "line_done" =>
         LET t == LineTotal(line_number, min_gap_size)
         IN  /\ t > 50 => line_report = "CRITICAL"
             /\ t \in 21..50 => line_report = "HIGH"
             /\ t \in 11..20 => line_report = "MEDIUM"
             /\ t = 10 => line_report = "LOW"

C8_Witness ==
    /\ apc = "stats_done"
    /\ LineTotal(1, StatsMinGapSize) = 50
    /\ BucketsOf(1) = {"high"}
    /\ LineTotal(2, StatsMinGapSize) = 15
    /\ BucketsOf(2) = {"medium"}

\* C9 as stated: a line whose total gap points is <= 5 is in no bucket.
C9_UpToFiveExcluded ==
    apc = "stats_done" =>
        \A line \in DbLines :
            LineTotal(line, StatsMinGapSize) <= 5 => BucketsOf(line) = {}

\* C9 amended: a line whose total gap points (over gaps of at least 5
\* points, as get_gap_statistics counts them) is below 5 is in no bucket;
\* a line whose total is exactly 5 is in the bucket low and only there.
C9_BelowFiveExcluded ==
    apc = "stats_done" =>
        \A line \in DbLines :
            /\ LineTotal(line, StatsMinGapSize) < 5 => BucketsOf(line) = {}
            /\ LineTotal(line, StatsMinGapSize) = 5 => BucketsOf(line) = {"low"}

C9_Witness ==
    /\ apc = "stats_done"
    /\ \E line \in DbLines :
         /\ LineTotal(line, 1) \in 1..4
         /\ BucketsOf(line) = {}
    /\ \E line \in DbLines :
         /\ LineTotal(line, StatsMinGapSize) = 5
         /\ BucketsOf(line) = {"low"}

SortedByTotalDescending(seq) ==
    \A i \in 1..(Len(seq) - 1) :
        seq[i].total_gap_points >= seq[i + 1].total_gap_points

\* C10 as stated: get_all_lines_with_gaps and get_swath_gaps both return
\* their lines in descending order of total_gap_points.
C10_BothSortedDescending ==
    apc \in {"all_done", "swath_done"} => SortedByTotalDescending(agg_ret)

\* C10 amended: get_all_lines_with_gaps returns its lines in descending
\* order of total_gap_points, lines of equal total in ascending line order;
\* get_swath_gaps returns its lines in ascending line order, the order of
\* its line query, whatever their totals.
C10_AllSortedSwathInLineOrder ==
    /\ apc = "all_done" =>
         /\ SortedByTotalDescending(agg_ret)
         /\ \A i \in 1..(Len(agg_ret) - 1) :
              agg_ret[i].total_gap_points = agg_ret[i + 1].total_gap_points
                 => agg_ret[i].line < agg_ret[i + 1].line
    /\ apc = "swath_done" =>
         \A i \in 1..(Len(agg_ret) - 1) : agg_ret[i].line < agg_ret[i + 1].line

C10_Witness ==
    /\ apc = "all_done"
    /\ Len(agg_ret) >= 3
    /\ agg_ret[1].line > agg_ret[2].line
    /\ agg_ret[2].total_gap_points = agg_ret[3].total_gap_points
    /\ agg_ret[1].total_gap_points > agg_ret[3].total_gap_points

\* size of the gaps gs[1..n], added up by position
RECURSIVE GapSizeSum(_, _)
GapSizeSum(gs, n) == IF n = 0 THEN 0 ELSE GapSizeSum(gs, n - 1) + gs[n].size

\* C11: in every entry returned by get_all_lines_with_gaps and by
\* get_swath_gaps, gaps is the list get_line_gaps returns for that line with
\* the same min_gap_size, total_gap_points is the sum of its sizes and
\* gap_count its length; a line of the aggregation's line query has an entry
\* exactly when get_line_gaps returns at least one gap for it, and it has
\* at most one entry.
C11_EntriesMatchLineGaps ==
    apc \in {"all_done", "swath_done"} =>
        /\ \A i \in 1..Len(agg_ret) :
             LET e == agg_ret[i]
             IN  /\ e.gaps = GetLineGaps(coordinates, global_deployments,
                                         e.line, agg_min)
                 /\ e.total_gap_points = GapSizeSum(e.gaps, Len(e.gaps))
                 /\ e.gap_count = Cardinality(DOMAIN e.gaps)
                 /\ e.gap_count >= 1
                 /\ \A j \in 1..Len(agg_ret) : agg_ret[j].line = e.line => j = i
        /\ \A k \in 1..Len(agg_results) :
             (\E i \in 1..Len(agg_ret) : agg_ret[i].line = agg_results[k])
                <=> GetLineGaps(coordinates, global_deployments,
                                agg_results[k], agg_min) # <<>>
        /\ \A i \in 1..Len(agg_ret) :
             \E k \in 1..Len(agg_results) : agg_results[k] = agg_ret[i].line

C11_Witness ==
    /\ apc = "swath_done"
    /\ Len(agg_results) >= 3
    /\ Len(agg_ret) = 2
    /\ \E i \in 1..2 : agg_ret[i].gap_count = 2 /\ agg_ret[i].total_gap_points = 2
    /\ \E i \in 1..2 : agg_ret[i].gap_count = 1 /\ agg_ret[i].total_gap_points >= 2

\* ------------------------------------------------------------------------
\* Claims about CoordinateTransform (specification SpecTransform)
\* ------------------------------------------------------------------------

\* the table never holds two rows of one name
OneRowPerName == \A r, q \in store : r.name = q.name => r = q

\* the calls that evaluate the polynomial
Evaluations == {"transform", "transform_batch", "validate"}

\* C12: transform, transform_batch and validate on an instance that holds no
\* coefficients (never fitted, never loaded) each fail with NotFitted, return
\* nothing, and leave every field of the instance and the table as they were.
C12_UnfittedCallsRaiseNotFitted ==
    [][(op'.kind \in Evaluations /\ NotFitted(inst))
          => /\ raised' = "NotFitted"
             /\ result' = NoResult
             /\ inst' = inst
             /\ store' = store]_vars

\* validate has failed on an unfitted instance, given a full control-point
\* list, while the table holds a transformation
C12_Witness ==
    /\ op.kind = "validate" /\ Len(op.arg) = MaxPoints
    /\ raised = "NotFitted"
    /\ NotFitted(inst)
    /\ store # {}

\* C13: calculate_coefficients given fewer than 10 control points fails
\* with InsufficientControlPoints and sets none of coeffs_lon, coeffs_lat,
\* the rmse fields and control_point_count (stated for 1 to 9 points; the
\* empty list fails earlier, with an IndexError).
C13_FewPointsRejected ==
    [][(op'.kind = "calculate_coefficients" /\ Len(op'.arg) \in 1..9)
          => /\ raised' = "InsufficientControlPoints"
             /\ inst' = inst]_vars

\* C14: calculate_coefficients given 10 or more control points that all
\* share one (x, y) fails with SingularSystem, and an instance that held no
\* coefficients holds none afterwards.
C14_SameXYRejected ==
    [][(op'.kind = "calculate_coefficients" /\ Len(op'.arg) >= 10 /\ SameXY(op'.arg))
          => /\ raised' = "SingularSystem"
             /\ (NotFitted(inst) => NotFitted(inst'))]_vars

\* C15: save_to_database on an instance that holds no coefficients fails
\* with an error and writes nothing to the table.
C15_SaveWithoutCoefficientsFails ==
    [][(op'.kind = "save_to_database" /\ NotFitted(inst))
          => /\ raised' # "none"
             /\ store' = store]_vars

\* a named instance with a connection and no coefficients was refused, with
\* the "no coefficients" error, while the table holds a transformation
C15_Witness ==
    /\ op.kind = "save_to_database"
    /\ raised = "NoCoefficients"
    /\ inst.db_conn /\ inst.name \in Names
    /\ NotFitted(inst)
    /\ store # {}

\* the calls that write to the table
Writes == {"save_to_database", "standalone"}

\* the list holds the elements of the array, in order
SameElements(list, arr) ==
    /\ Len(list) = Cardinality(DOMAIN arr)
    /\ \A i \in 1..Len(list) : list[i] = arr[i - 1]

\* row r carries what the successful write o made by instance t wrote
CarriesWrite(r, o, t) ==
    IF o.kind = "save_to_database"
    THEN /\ r.name = t.name
         /\ SameElements(r.coefficients_lon, t.coeffs_lon)
         /\ SameElements(r.coefficients_lat, t.coeffs_lat)
         /\ r.rmse_lon = t.rmse_lon /\ r.rmse_lat = t.rmse_lat
         /\ r.rmse_meters = t.rmse_meters
         /\ r.control_point_count = t.control_point_count
         /\ r.description = o.arg[1] /\ r.created_by = o.arg[2]
    ELSE LET f == Fits[o.arg[2]]
         IN  /\ r.name = o.arg[1]
             /\ SameElements(r.coefficients_lon, f.coeffs_lon)
             /\ SameElements(r.coefficients_lat, f.coeffs_lat)
             /\ r.rmse_lon = Float(f.rmse_lon) /\ r.rmse_lat = Float(f.rmse_lat)
             /\ r.rmse_meters = Float(f.rmse_meters)
             /\ r.control_point_count = Len(o.arg[2])
             /\ r.description = "" /\ r.created_by = "system"

\* C16: after a successful save the table holds exactly one row of the saved
\* name, carrying the coefficients, rmse values, control_point_count,
\* description and created_by of that save; rows of other names are as they
\* were; and a row stays as written until the next write (both writers:
\* save_to_database and the standalone script).
C16_UpsertLastSaveWins ==
    [][/\ (op'.kind \in Writes /\ raised' = "none")
            => /\ \A r, q \in store' : r.name = q.name => r = q
               /\ \E r \in store' :
                     /\ CarriesWrite(r, op', inst)
                     /\ {q \in store' : q.name # r.name}
                            = {q \in store : q.name # r.name}
       /\ (op'.kind \notin Writes) => store' = store]_vars

\* a save under "t2" as ("refit", "alice") has replaced the transformation
\* stored before under that name, next to a row of another name
C16_Witness ==
    /\ op = [kind |-> "save_to_database", arg |-> <<"refit", "alice">>]
    /\ raised = "none"
    /\ inst.name = "t2"
    /\ Cardinality(store) = 2
    /\ StoredBefore \notin store
    /\ \E r \in store : r.name = "t2" /\ r.created_by = "alice"
                          /\ r.control_point_count = MaxPoints

\* C17: load_from_database (on an instance with a connection) for a name
\* that has no row fails with NotFound and leaves name, coeffs_lon,
\* coeffs_lat, the rmse fields and control_point_count as they were.
C17_LoadOfMissingNameChangesNothing ==
    [][(/\ op'.kind = "load_from_database"
        /\ inst.db_conn
        /\ LoadName(inst, op'.arg) # NoName
        /\ ~\E r \in store : r.name = LoadName(inst, op'.arg))
          => /\ raised' = "NotFound"
             /\ inst' = inst]_vars

\* a fitted instance was asked for another name, which has no row, while
\* the table holds a row of a different name
C17_Witness ==
    /\ op.kind = "load_from_database"
    /\ raised = "NotFound"
    /\ op.arg \in Names /\ op.arg # inst.name
    /\ ~NotFitted(inst)
    /\ store # {}

\* C18: a load that found the row of a name leaves in coeffs_lon and
\* coeffs_lat, element by element and in the same order, the coefficients
\* that the last save under that name took from its fitted instance.
C18_LoadReturnsSavedCoefficients ==
    (op.kind = "load_from_database" /\ raised \in {"none", "TypeError"})
        => /\ saved_fit[inst.name] # None
           /\ DOMAIN inst.coeffs_lon = 0..9
           /\ DOMAIN inst.coeffs_lat = 0..9
           /\ \A i \in 0..9 :
                 /\ inst.coeffs_lon[i] = saved_fit[inst.name].coeffs_lon[i]
                 /\ inst.coeffs_lat[i] = saved_fit[inst.name].coeffs_lat[i]

\* a load has returned what an instance fitted on MaxPoints points saved as
\* ("refit", "alice"), with coeffs_lon and coeffs_lat different
C18_Witness ==
    /\ op.kind = "load_from_database"
    /\ raised = "none"
    /\ inst.coeffs_lon # inst.coeffs_lat
    /\ \E r \in store : /\ r.name = inst.name
                          /\ r.created_by = "alice"
                          /\ r.control_point_count = MaxPoints

\* C19: validate, transform and transform_batch never modify a field of the
\* transform they are called on (nor the table), whether they return or raise.
C19_EvaluationsReadOnly ==
    [][(op'.kind \in Evaluations) => (inst' = inst /\ store' = store)]_vars

\* validate has returned metrics for points other than the fitted ones: the
\* rmse it measured differs from the rmse field of the instance
C19_Witness ==
    /\ op.kind = "validate"
    /\ raised = "none"
    /\ Float(result.value.rmse_lat) # inst.rmse_lat
    /\ result.value.point_count # inst.control_point_count

\* x to the power e
RECURSIVE Pow(_, _)
Pow(x, e) == IF e = 0 THEN 1 ELSE x * Pow(x, e - 1)

\* exponents of X and Y in [1, X, Y, X^2, XY, Y^2, X^3, X^2 Y, X Y^2, Y^3]
BasisExponents ==
    << <<0, 0>>, <<1, 0>>, <<0, 1>>, <<2, 0>>, <<1, 1>>, <<0, 2>>,
       <<3, 0>>, <<2, 1>>, <<1, 2>>, <<0, 3>> >>

IsBasisAt(arr, x, y) ==
    /\ DOMAIN arr = 0..9
    /\ \A j \in 0..9 :
          arr[j] = Pow(x, BasisExponents[j + 1][1]) * Pow(y, BasisExponents[j + 1][2])

\* C20: row i of transform_batch(XY) is transform(x_i, y_i): both put lat
\* first and lon second, and both evaluate the ten basis terms
\* [1, X, Y, X^2, XY, Y^2, X^3, X^2 Y, X Y^2, Y^3], in that order, against
\* coeffs_lat and coeffs_lon.
C20_BatchRowsEqualTransform ==
    (op.kind = "transform_batch" /\ raised = "none")
        => /\ Cardinality(DOMAIN result.value) = Len(op.arg)
           /\ \A i \in 1..Len(op.arg) :
                 LET x == op.arg[i][1]
                     y == op.arg[i][2]
                     row == result.value[i - 1]
                     single == transform(inst, x, y)
                 IN  /\ DOMAIN row = 0..1
                     /\ row[0] = single[1]
                     /\ row[1] = single[2]
                     /\ row[0] = Dot(Terms(x, y), inst.coeffs_lat)
                     /\ row[1] = Dot(Terms(x, y), inst.coeffs_lon)
                     /\ IsBasisAt(Terms(x, y), x, y)
                     /\ IsBasisAt(create_polynomial_matrix(op.arg)[i - 1], x, y)

\* a batch of MaxBatch rows was transformed by an instance that holds the
\* stored coefficients, all different, and lat differs from lon in a row
C20_Witness ==
    /\ op.kind = "transform_batch"
    /\ raised = "none"
    /\ Len(op.arg) = MaxBatch
    /\ ToList(inst.coeffs_lon) = StoredBefore.coefficients_lon
    /\ ToList(inst.coeffs_lat) = StoredBefore.coefficients_lat
    /\ result.value[0][0] # result.value[0][1]

\* ------------------------------------------------------------------------
\* Claims about min_gap_size and the totals of a scan (specification Spec)
\* ------------------------------------------------------------------------

\* get_line_gaps on given coverage rows: the whole loop, then the end of line
GapsOfRows(rows, line, min) ==
    IF rows = <<>> THEN <<>>
    ELSE EndOfLine(ScanRows(ScanState(<<>>, None, 0), rows, 1, Len(rows), line, min),
                   line, rows, min)

\* the gaps of gs that have at least k points, in the order of gs
AtLeast(gs, k) ==
    LET Big(g) == g.size >= k
    IN  SelectSeq(gs, Big)

\* C28: on the same coverage rows, the result for min_gap_size = k is the
\* sub-list, in the same order, of the result for min_gap_size = 1 made of
\* the gaps of size >= k; and every min_gap_size <= 1 (0 and negative
\* values included) gives the result of min_gap_size = 1.
C28_MinGapSizeFilters ==
    pc = "done"
        => /\ ret = AtLeast(GapsOfRows(results, line_number, 1), min_gap_size)
           /\ min_gap_size <= 1 => ret = GapsOfRows(results, line_number, 1)

\* a call with min_gap_size >= 2 returned a gap, and left out a shorter
\* one that ends the line and that min_gap_size = 1 reports
C28_Witness ==
    /\ pc = "done"
    /\ min_gap_size >= 2
    /\ ret # <<>>
    /\ Len(ret) < Len(GapsOfRows(results, line_number, 1))
    /\ gap_start # None
    /\ gap_size < min_gap_size

\* C29: with min_gap_size = 1 the sizes of the returned gaps add up to the
\* number of coverage records that have has_deployment = 0.
C29_SizesSumToEmptyRecords ==
    (pc = "done" /\ min_gap_size = 1)
        => SumSizes(ret) =
              Cardinality({i \in 1..Len(results) : results[i][2] = 0})

\* a call with min_gap_size = 1 returned two gaps or more, on a line that
\* has an uncovered shotpoint stored twice and a shotpoint without record
C29_Witness ==
    /\ pc = "done"
    /\ min_gap_size = 1
    /\ Len(ret) >= 2
    /\ \E i \in 1..(Len(results) - 1) :
          results[i] = results[i + 1] /\ results[i][2] = 0
    /\ \E i \in 1..(Len(results) - 1) : results[i + 1][1] > results[i][1] + 1

\* ------------------------------------------------------------------------
\* Claims about the statistics as a whole (specification SpecSeverity)
\* ------------------------------------------------------------------------

\* the lines of a severity bucket
BucketLines(b) ==
    {stats.lines_by_severity[b][i] : i \in 1..Len(stats.lines_by_severity[b])}

BucketedLines == UNION {BucketLines(b) : b \in Buckets}

\* the sum of f[line] over the lines of S
RECURSIVE SumOverLines(_, _)
SumOverLines(S, f) ==
    IF S = {} THEN 0
    ELSE LET line == CHOOSE l \in S : TRUE
         IN  f[line] + SumOverLines(S \ {line}, f)

\* C30: in the result of get_gap_statistics the four severity buckets are
\* pairwise disjoint and their sizes add up to total_lines_with_gaps; every
\* line in a bucket has a gap of at least 5 points; and total_gaps and
\* total_gap_points are the number of gaps of at least 5 points, and the
\* points in them, summed over exactly the lines in the buckets.
C30_BucketsPartitionCountedLines ==
    apc = "stats_done" =>
        LET GapCount == [line \in BucketedLines |->
                Len(GetLineGaps(coordinates, global_deployments, line, StatsMinGapSize))]
            GapPoints == [line \in BucketedLines |->
                SumSizes(GetLineGaps(coordinates, global_deployments, line,
                                     StatsMinGapSize))]
        IN  /\ \A b, c \in Buckets :
                  b # c => BucketLines(b) \cap BucketLines(c) = {}
            /\ \A b \in Buckets :
                  Cardinality(BucketLines(b)) = Len(stats.lines_by_severity[b])
            /\ Len(stats.lines_by_severity.critical)
                  + Len(stats.lines_by_severity.high)
                  + Len(stats.lines_by_severity.medium)
                  + Len(stats.lines_by_severity.low) = stats.total_lines_with_gaps
            /\ \A line \in BucketedLines :
                  \E i \in 1..Len(GetLineGaps(coordinates, global_deployments, line, 1)) :
                     GetLineGaps(coordinates, global_deployments, line, 1)[i].size
                        >= StatsMinGapSize
            /\ stats.total_gaps = SumOverLines(BucketedLines, GapCount)
            /\ stats.total_gap_points = SumOverLines(BucketedLines, GapPoints)

\* the statistics count two lines, in different buckets, one of them with
\* two gaps of at least 5 points
C30_Witness ==
    /\ apc = "stats_done"
    /\ stats.total_lines_with_gaps = 2
    /\ stats.total_gaps = 3
    /\ \E b, c \in Buckets : b # c /\ BucketLines(b) = {1} /\ BucketLines(c) = {2}

\* ------------------------------------------------------------------------
\* Claims about repeated and failing queries (SpecQueries, SpecPool)
\* ------------------------------------------------------------------------

\* C21: get_line_gaps keeps no state between queries: no step of it writes
\* to the tables, and a call returns the list that every earlier call with
\* the same line, the same min_gap_size and the same coverage rows returned.
C21_NoStateBetweenQueries ==
    /\ [](pc = "done" =>
            \A h \in history :
                (h.line = line_number /\ h.min = min_gap_size /\ h.rows = results)
                    => h.ret = ret)
    /\ [][UNCHANGED dbVars]_vars

\* a second call with the arguments and rows of the first has returned a
\* gap, after the first call ended with a gap still open in its locals
C21_Witness ==
    /\ pc = "done"
    /\ calls >= 1
    /\ ret # <<>>
    /\ gap_start # None
    /\ \E h \in history :
          h.line = line_number /\ h.min = min_gap_size /\ h.rows = results

\* C26: when the coverage query fails, because no connection could be
\* obtained or because the query raised, no exception leaves the call:
\* _execute_query returns [] and get_line_gaps returns [].
C26_FailedQueryGivesNoGaps ==
    (pc # "idle" /\ query_outcome \in {"no_connection", "query_error"})
        => /\ pc = "done"
           /\ raised = "none"
           /\ results = <<>>
           /\ ret = <<>>

\* the query raised on a line for which an earlier call, whose query went
\* through, had returned a gap
C26_Witness ==
    /\ pc = "done"
    /\ query_outcome = "query_error"
    /\ ret = <<>>
    /\ \E h \in history : h.line = line_number /\ h.ret # <<>>

\* C27: every connection _execute_query obtains goes back through
\* return_connection exactly once, whether the query succeeds or raises:
\* each query returns as many connections as it took, at most one, and
\* after every sequence of /gaps commands as many connections have been
\* returned as were taken.
C27_ConnectionsReturned ==
    /\ [](taken = returned)
    /\ [][/\ taken' - taken \in {0, 1}
           /\ returned' - returned = taken' - taken]_vars

\* a second command, get_gap_statistics, has returned after one of its
\* coverage queries raised with the connection held, and another query
\* went through
C27_Witness ==
    /\ apc = "stats_done"
    /\ calls >= 1
    /\ query_outcome = "query_error"
    /\ stats.total_lines_with_gaps >= 1
    /\ taken >= 3

\* ------------------------------------------------------------------------
\* Claims about threads on one instance (specification SpecThreads)
\* ------------------------------------------------------------------------

\* C22: transform and transform_batch calls that run at the same time on one
\* fitted instance, no fit running during the call, each return what the
\* call returns when it runs alone; and no step of such a call changes a
\* field of the instance.
C22_ConcurrentReadsSafe ==
    /\ [](\A r \in Readers :
            (readers[r].pc = "done" /\ ~readers[r].overlapped)
                => /\ readers[r].raised = "none"
                   /\ readers[r].ret = readers[r].alone)
    /\ [][(writer' = writer) => (inst' = inst)]_vars

\* a transform call and a transform_batch call on the same instance have
\* both returned, no fit step having run during either of them
C22_Witness ==
    /\ \A r \in Readers : readers[r].pc = "done" /\ ~readers[r].overlapped
    /\ readers[1].call.kind = "transform"
    /\ readers[2].call.kind = "transform_batch"
    /\ writer.fits = 0

\* C24: a transform or transform_batch call that interleaves with a re-fit
\* never computes its result from coeffs_lon of one fit and coeffs_lat of
\* another.
C24_ReaderSeesOneFit ==
    \A r \in Readers :
        readers[r].pc = "done" => readers[r].lon_fit = readers[r].lat_fit

\* ------------------------------------------------------------------------
\* Claims about loading the saved metrics (specification SpecTransform)
\* ------------------------------------------------------------------------

\* C25: load_from_database, on an instance with a connection, of a name
\* that has a row, completes without raising and leaves in rmse_lon,
\* rmse_lat, rmse_meters and control_point_count the values of the row,
\* a saved rmse_meters of 0 included.
C25_LoadCompletesWithSavedMetrics ==
    [][\A r \in store :
          (/\ op'.kind = "load_from_database"
           /\ inst.db_conn
           /\ r.name # NoName
           /\ r.name = LoadName(inst, op'.arg))
              => /\ raised' = "none"
                 /\ inst'.rmse_lon = r.rmse_lon
                 /\ inst'.rmse_lat = r.rmse_lat
                 /\ inst'.rmse_meters = r.rmse_meters
                 /\ inst'.control_point_count = r.control_point_count]_vars

\* ------------------------------------------------------------------------
\* Claims about the fit on its own control points (specification SpecFit)
\* ------------------------------------------------------------------------

\* |lat - pt.lat| and |lon - pt.lon| for latlon = transform(pt.x, pt.y)
PointError(latlon, pt) ==
    [lat |-> Abs(latlon[1] - pt.lat), lon |-> Abs(latlon[2] - pt.lon)]

====
